---- MODULE Spec2Model ----
(***************************************************************************)
(* Model of the Polymer ethers plugin (src/src/polymer-ethers-plugin.js):  *)
(* the JSON-RPC client (requestProof, queryProofStatus), the polling loop  *)
(* (wait) and the entry points installed by addPolymerToEthers.            *)
(*                                                                         *)
(* One behaviour is one call of a caller-facing operation against a proof  *)
(* service whose answers are chosen nondeterministically.                  *)
(*                                                                         *)
(* JavaScript values:                                                      *)
(*   an optional value is a sequence: <<>> is undefined, <<v>> is v;       *)
(*   a JSON value read from a response is a record tagged by t.            *)
(***************************************************************************)
EXTENDS Integers, Sequences, FiniteSets, TLC

VARIABLES
  polymerConfig,  \* the merged configuration captured by the closures
  op,             \* the caller-facing operation that was called
  call,           \* the arguments that operation was called with
  pc,             \* "idle", "submit", "query", "sleep" or "done"
  jobId,          \* wait / queryProofStatus: the jobId parameter
  maxAttempts,    \* wait: the maxAttempts parameter
  interval,       \* wait: the interval parameter
  attempt,        \* wait: the loop counter
  result,         \* wait: the result of the current iteration
  returnJob,      \* polymerProof: options.returnJob
  receipt,        \* polymerProof: the receipt the proof is requested for
  timer,          \* the pending setTimeout, <<ms>>, or <<>>
  lastRequest,    \* the last request sent to the proof service
  resp,           \* the response to lastRequest, once it has arrived
  submits,        \* number of proof requests sent
  queries,        \* number of status queries sent
  sleeps,         \* number of sleeps started
  answers,        \* what the service answered to each status query, in order
  outcome,        \* how the call ended
  variant,        \* the plugin file loaded: "receipt" or "log"
  ethers,         \* the ethers object: what addPolymerToEthers installed on it
  used,           \* the configuration each operation last ran with
  handle,         \* polymerProof: the job id its requestProof call returned
  first,          \* the finished call that is being repeated, or NoRun
  loops           \* the poll loops running concurrently, by loop

vars == <<polymerConfig, op, call, pc, jobId, maxAttempts, interval, attempt,
          result, returnJob, receipt, timer, lastRequest, resp, submits,
          queries, sleeps, answers, outcome, variant, ethers, used, handle,
          first, loops>>

\* the variables that a call of an installed operation leaves alone
others == <<variant, ethers, used, handle, first, loops>>

(***************************************************************************)
(* Bounds of the model                                                     *)
(***************************************************************************)
MaxAttemptsArg == 3   \* largest maxAttempts a caller or a configuration passes
MaxChainId == 2       \* chain ids are 1..MaxChainId

(***************************************************************************)
(* JavaScript values                                                       *)
(***************************************************************************)
\* truthiness of an optional number: undefined and 0 are falsy
TruthyNum(x) == x # <<>> /\ x[1] # 0

\* truthiness of an optional string: undefined and "" are falsy
TruthyStr(x) == x # <<>> /\ x[1] # ""

JUndefined == [t |-> "undefined"]
JNull == [t |-> "null"]
NoValue == [t |-> "none"]
JString(str) == [t |-> "string", s |-> str]

\* JSON.stringify(v): the serialized form of v, not v itself
JSONstringify(v) == <<"json", v>>

\* truthiness of a job id: undefined, null and "" are falsy
JTruthy(v) == v.t = "string" /\ v.s # ""

(***************************************************************************)
(* Configuration                                                           *)
(***************************************************************************)
DEFAULT_CONFIG ==
  [apiUrl |-> "https://proof.testnet.polymer.zone",
   apiKey |-> <<>>,
   maxAttempts |-> 20,
   interval |-> 3000,
   timeout |-> 60000,
   debug |-> FALSE]

\* { ...DEFAULT_CONFIG, ...config }
MergeConfig(defaults, config) ==
  [k \in DOMAIN defaults \cup DOMAIN config |->
     IF k \in DOMAIN config THEN config[k] ELSE defaults[k]]

\* the configurations a caller passes to addPolymerToEthers
UserConfigs ==
  { [apiKey |-> <<"key">>],
    [apiKey |-> <<"key">>, maxAttempts |-> MaxAttemptsArg, interval |-> 10,
     debug |-> TRUE] }

(***************************************************************************)
(* Errors: new Error(message) with the interpolated values kept apart      *)
(***************************************************************************)
Err(name, message, detail, n) ==
  [name |-> name, message |-> message, detail |-> detail, n |-> n]

NoError == Err("none", "", <<>>, 0)

HttpError(status) == Err("Error", "HTTP error! status: ", <<>>, status)
JsonSyntaxError == Err("SyntaxError", "Unexpected token in JSON", <<>>, 0)
ApiError(e) == Err("Error", "Polymer API error: ", JSONstringify(e), 0)
ProofFailedError(reason) ==
  Err("Error", "Proof generation failed: ", <<reason>>, 0)
TimeoutError(n) == Err("Error", "Proof generation timed out after ", <<>>, n)
\* result.status where result is undefined or null
StatusOfNullish(res) ==
  Err("TypeError", "Cannot read properties of undefined (reading 'status')",
      <<res.t>>, 0)

Pending == [kind |-> "pending", value |-> NoValue, error |-> NoError]
Fulfilled(v) == [kind |-> "fulfilled", value |-> v, error |-> NoError]
Rejected(e) == [kind |-> "rejected", value |-> NoValue, error |-> e]

(***************************************************************************)
(* The proof service: HTTP responses to a JSON-RPC request                 *)
(***************************************************************************)
HttpStatuses == {200, 500}

\* response.ok
Ok(r) == r.status >= 200 /\ r.status <= 299

ErrorVals == {<<>>, <<"">>, <<"job not found">>}

JObject(status, failureReason, proof) ==
  [t |-> "object", status |-> status, failureReason |-> failureReason,
   proof |-> proof]

StatusResults ==
  {JUndefined, JNull}
  \cup { JObject(<<"complete">>, <<>>, p) : p \in {<<>>, <<"0xabcd">>} }
  \cup { JObject(<<"error">>, f, <<>>) : f \in {<<>>, <<"">>, <<"out of gas">>} }
  \cup { JObject(s, <<>>, <<>>) : s \in {<<>>, <<"pending">>, <<"queued">>} }

Response(status, parsable, error, res) ==
  [status |-> status, parsable |-> parsable, error |-> error, result |-> res]

NoResponse == Response(0, FALSE, <<>>, NoValue)

\* the responses a request can get: every result in a plain success envelope,
\* the envelopes with an error member, bodies that are not JSON, and the
\* same under a failing HTTP status
ResponsesWith(results, sample) ==
  { Response(200, TRUE, <<>>, r) : r \in results }
  \cup { Response(s, TRUE, e, r) :
           s \in HttpStatuses, e \in ErrorVals \ {<<>>}, r \in {JUndefined, sample} }
  \cup { Response(s, FALSE, <<>>, JUndefined) : s \in HttpStatuses }
  \cup { Response(500, TRUE, <<>>, sample) }

QueryResponses ==
  ResponsesWith(StatusResults, JObject(<<"complete">>, <<>>, <<"0xabcd">>))

\* the job handles the service hands out
SubmitResults == {JUndefined, JString("job-1")}

SubmitResponses == ResponsesWith(SubmitResults, JString("job-1"))

(***************************************************************************)
(* queryProofStatus: the request it sends and what it makes of a response  *)
(***************************************************************************)
QueryRequest(job) ==
  [method |-> IF variant = "log" THEN "log_queryProof" ELSE "receipt_queryProof",
   params |-> <<job>>]

NoRequest == [method |-> "none", params |-> <<>>]

\* queryProofStatus answering a pending status where the transport failed
queryProofStatusHidesTransport(r) ==
  IF ~Ok(r) \/ ~r.parsable THEN Fulfilled(JObject(<<"pending">>, <<>>, <<>>))
  ELSE IF TruthyStr(r.error) THEN Rejected(ApiError(r.error[1]))
  ELSE Fulfilled(r.result)

queryProofStatus(r) ==
  IF ~Ok(r) THEN Rejected(HttpError(r.status))
  ELSE IF ~r.parsable THEN Rejected(JsonSyntaxError)
  ELSE IF TruthyStr(r.error) THEN Rejected(ApiError(r.error[1]))
  ELSE Fulfilled(r.result)

(***************************************************************************)
(* wait: the polling loop                                                  *)
(***************************************************************************)
\* as FailureReason, with the default only for an absent failureReason
FailureReasonIfAbsent(res) ==
  IF res.failureReason # <<>> THEN res.failureReason[1] ELSE "Unknown error"

\* result.failureReason || "Unknown error"
FailureReason(res) ==
  IF TruthyStr(res.failureReason) THEN res.failureReason[1] ELSE "Unknown error"

\* as WaitEnter, with the first query sent for the job id of the call before
WaitEnterStaleJob(job, max, ms, answered) ==
  /\ jobId' = job
  /\ maxAttempts' = max
  /\ interval' = ms
  /\ attempt' = 1
  /\ result' = NoValue
  /\ UNCHANGED <<timer, sleeps, answers>>
  /\ IF 1 <= max
       THEN /\ pc' = "query"
            /\ lastRequest' = QueryRequest(jobId)
            /\ resp' = NoResponse
            /\ queries' = queries + 1
            /\ outcome' = Pending
       ELSE /\ pc' = "done"
            /\ outcome' = Rejected(TimeoutError(max))
            /\ resp' = answered
            /\ UNCHANGED <<lastRequest, queries>>

\* entering wait(config, jobId, maxAttempts, interval): the loop test of the
\* first iteration and, when it passes, the first status query
WaitEnter(job, max, ms, answered) ==
  /\ jobId' = job
  /\ maxAttempts' = max
  /\ interval' = ms
  /\ attempt' = 1
  /\ result' = NoValue
  /\ UNCHANGED <<timer, sleeps, answers>>
  /\ IF 1 <= max
       THEN /\ pc' = "query"
            /\ lastRequest' = QueryRequest(job)
            /\ resp' = NoResponse
            /\ queries' = queries + 1
            /\ outcome' = Pending
       ELSE /\ pc' = "done"
            /\ outcome' = Rejected(TimeoutError(max))
            /\ resp' = answered
            /\ UNCHANGED <<lastRequest, queries>>

\* wait ends inside the loop body, by return or by throw
WaitEnd(o) ==
  /\ pc' = "done"
  /\ outcome' = o
  /\ UNCHANGED <<attempt, timer, sleeps>>

\* as WaitSleep, with debug logging taking the place of the sleep: the loop
\* ends there when debug is enabled
WaitSleepDebugEnds ==
  IF polymerConfig.debug
    THEN /\ pc' = "done"
         /\ outcome' = Rejected(TimeoutError(maxAttempts))
         /\ UNCHANGED <<attempt, timer, sleeps>>
    ELSE /\ pc' = "sleep"
         /\ timer' = <<interval>>
         /\ sleeps' = sleeps + 1
         /\ UNCHANGED <<attempt, outcome>>

\* await new Promise((resolve) => setTimeout(resolve, interval))
WaitSleep ==
  /\ pc' = "sleep"
  /\ timer' = <<interval>>
  /\ sleeps' = sleeps + 1
  /\ UNCHANGED <<attempt, outcome>>

\* the last iteration ends: attempt++, the loop test fails, the final throw
WaitExhausted ==
  /\ pc' = "done"
  /\ attempt' = attempt + 1
  /\ outcome' = Rejected(TimeoutError(maxAttempts))
  /\ UNCHANGED <<timer, sleeps>>

\* as WaitIteration, with the sleep test off by one: attempt < maxAttempts - 1
WaitIterationStopsEarly(res) ==
  /\ result' = res
  /\ UNCHANGED <<jobId, maxAttempts, interval, lastRequest, queries>>
  /\ IF res.t \in {"undefined", "null"}
       THEN WaitEnd(Rejected(StatusOfNullish(res)))
     ELSE IF res.status = <<"complete">>
       THEN WaitEnd(Fulfilled(res))
     ELSE IF res.status = <<"error">>
       THEN WaitEnd(Rejected(ProofFailedError(FailureReason(res))))
     ELSE IF attempt < maxAttempts - 1
       THEN WaitSleep
     ELSE WaitExhausted

\* as WaitIteration, returning result.proof instead of result
WaitIterationReturnsProof(res) ==
  /\ result' = res
  /\ UNCHANGED <<jobId, maxAttempts, interval, lastRequest, queries>>
  /\ IF res.t \in {"undefined", "null"}
       THEN WaitEnd(Rejected(StatusOfNullish(res)))
     ELSE IF res.status = <<"complete">>
       THEN WaitEnd(Fulfilled([t |-> "proof", proof |-> res.proof]))
     ELSE IF res.status = <<"error">>
       THEN WaitEnd(Rejected(ProofFailedError(FailureReason(res))))
     ELSE IF attempt < maxAttempts
       THEN WaitSleep
     ELSE WaitExhausted

\* as WaitIteration, without the test for status "error"
WaitIterationRetriesFailed(res) ==
  /\ result' = res
  /\ UNCHANGED <<jobId, maxAttempts, interval, lastRequest, queries>>
  /\ IF res.t \in {"undefined", "null"}
       THEN WaitEnd(Rejected(StatusOfNullish(res)))
     ELSE IF res.status = <<"complete">>
       THEN WaitEnd(Fulfilled(res))
     ELSE IF attempt < maxAttempts
       THEN WaitSleep
     ELSE WaitExhausted

\* as WaitIteration, sleeping after the final attempt too
WaitIterationSleepsAfterLast(res) ==
  /\ result' = res
  /\ UNCHANGED <<jobId, maxAttempts, interval, lastRequest, queries>>
  /\ IF res.t \in {"undefined", "null"}
       THEN WaitEnd(Rejected(StatusOfNullish(res)))
     ELSE IF res.status = <<"complete">>
       THEN WaitEnd(Fulfilled(res))
     ELSE IF res.status = <<"error">>
       THEN WaitEnd(Rejected(ProofFailedError(FailureReason(res))))
     ELSE WaitSleep

\* as WaitIteration, returning on every status but "pending" and "error"
WaitIterationReturnsUnknown(res) ==
  /\ result' = res
  /\ UNCHANGED <<jobId, maxAttempts, interval, lastRequest, queries>>
  /\ IF res.t \in {"undefined", "null"}
       THEN WaitEnd(Rejected(StatusOfNullish(res)))
     ELSE IF res.status \notin {<<"pending">>, <<"error">>}
       THEN WaitEnd(Fulfilled(res))
     ELSE IF res.status = <<"error">>
       THEN WaitEnd(Rejected(ProofFailedError(FailureReason(res))))
     ELSE IF attempt < maxAttempts
       THEN WaitSleep
     ELSE WaitExhausted

\* as WaitIteration, with the last attempt timing out whatever its status
WaitIterationTimesOutLast(res) ==
  /\ result' = res
  /\ UNCHANGED <<jobId, maxAttempts, interval, lastRequest, queries>>
  /\ IF attempt >= maxAttempts
       THEN WaitExhausted
     ELSE IF res.t \in {"undefined", "null"}
       THEN WaitEnd(Rejected(StatusOfNullish(res)))
     ELSE IF res.status = <<"complete">>
       THEN WaitEnd(Fulfilled(res))
     ELSE IF res.status = <<"error">>
       THEN WaitEnd(Rejected(ProofFailedError(FailureReason(res))))
     ELSE IF attempt < maxAttempts
       THEN WaitSleep
     ELSE WaitExhausted

\* the rest of one iteration once queryProofStatus has returned res
WaitIteration(res) ==
  /\ result' = res
  /\ UNCHANGED <<jobId, maxAttempts, interval, lastRequest, queries>>
  /\ IF res.t \in {"undefined", "null"}
       THEN WaitEnd(Rejected(StatusOfNullish(res)))
     ELSE IF res.status = <<"complete">>
       THEN WaitEnd(Fulfilled(res))
     ELSE IF res.status = <<"error">>
       THEN WaitEnd(Rejected(ProofFailedError(FailureReason(res))))
     ELSE IF attempt < maxAttempts
       THEN WaitSleep
     ELSE WaitExhausted

\* as SleepDone, for a timer whose promise is never resolved
SleepNeverResolves ==
  /\ pc = "sleep"
  /\ UNCHANGED vars

\* the timer of the sleep fires: attempt++, the loop test, the next query
SleepDone ==
  /\ pc = "sleep"
  /\ timer' = <<>>
  /\ attempt' = attempt + 1
  /\ result' = NoValue
  /\ IF attempt + 1 <= maxAttempts
       THEN /\ pc' = "query"
            /\ lastRequest' = QueryRequest(jobId)
            /\ resp' = NoResponse
            /\ queries' = queries + 1
            /\ UNCHANGED outcome
       ELSE /\ pc' = "done"
            /\ outcome' = Rejected(TimeoutError(maxAttempts))
            /\ UNCHANGED <<lastRequest, resp, queries>>
  /\ UNCHANGED <<polymerConfig, others, op, call, jobId, maxAttempts, interval,
                 returnJob, receipt, submits, sleeps, answers>>

\* the operations that call queryProofStatus once, outside wait
DirectQueryOps ==
  {"polymer.queryProofStatus", "tx.polymerProofStatus",
   "receipt.polymerProofStatus"}

\* what the service said in r, as the data model names it
AnswerClass(r) ==
  IF ~Ok(r) \/ ~r.parsable THEN "transport"
  ELSE IF TruthyStr(r.error) THEN "remote"
  ELSE IF r.result.t # "object" THEN "empty"
  ELSE IF r.result.status = <<"complete">> THEN "complete"
  ELSE IF r.result.status = <<"error">> THEN "failed"
  ELSE "pending"

\* as QueryRespond, with wait catching the error of a failed status query
\* and going on as after a pending status
QueryRespondSwallowsError(r) ==
  /\ pc = "query"
  /\ resp' = r
  /\ answers' = Append(answers, AnswerClass(r))
  /\ UNCHANGED <<polymerConfig, others, op, call, returnJob, receipt, submits>>
  /\ LET q == queryProofStatus(r) IN
       IF op \in DirectQueryOps
         THEN /\ pc' = "done"
              /\ outcome' = q
              /\ UNCHANGED <<jobId, maxAttempts, interval, attempt, result,
                             timer, lastRequest, queries, sleeps>>
       ELSE IF q.kind = "rejected"
         THEN WaitIteration(JObject(<<>>, <<>>, <<>>))
       ELSE WaitIteration(q.value)

\* the proof service answers the outstanding status query with r
QueryRespond(r) ==
  /\ pc = "query"
  /\ resp' = r
  /\ answers' = Append(answers, AnswerClass(r))
  /\ UNCHANGED <<polymerConfig, others, op, call, returnJob, receipt, submits>>
  /\ LET q == queryProofStatus(r) IN
       IF q.kind = "rejected"
         THEN /\ pc' = "done"
              /\ outcome' = q
              /\ UNCHANGED <<jobId, maxAttempts, interval, attempt, result,
                             timer, lastRequest, queries, sleeps>>
       ELSE IF op \in DirectQueryOps
         THEN /\ pc' = "done"
              /\ outcome' = q
              /\ UNCHANGED <<jobId, maxAttempts, interval, attempt, result,
                             timer, lastRequest, queries, sleeps>>
       ELSE WaitIteration(q.value)

(***************************************************************************)
(* ethers.polymer: the standalone functions                                *)
(***************************************************************************)
JobIdArgs == {JUndefined, JString(""), JString("job-1")}
\* no entry point checks the sign of maxAttempts: a negative number and 0
\* are passed like any other
MaxAttemptsArgs == {<<>>} \cup { <<m>> : m \in (-1)..MaxAttemptsArg }
IntervalArgs == {<<>>, <<0>>, <<10>>}

NoCall == [jobId |-> JUndefined]

\* no call has been finished and taken up for repetition
NoRun == [op |-> "none"]

\* ethers.polymer.wait(jobId, maxAttempts, interval)
PolymerWait(job, max, ms) ==
  /\ pc = "idle"
  /\ op' = "polymer.wait"
  /\ call' = [jobId |-> job, maxAttempts |-> max, interval |-> ms]
  /\ WaitEnter(job,
               IF TruthyNum(max) THEN max[1] ELSE polymerConfig.maxAttempts,
               IF TruthyNum(ms) THEN ms[1] ELSE polymerConfig.interval,
               resp)
  /\ UNCHANGED <<polymerConfig, others, returnJob, receipt, submits>>

\* ethers.polymer.queryProofStatus(jobId)
PolymerQueryProofStatus(job) ==
  /\ pc = "idle"
  /\ op' = "polymer.queryProofStatus"
  /\ call' = [jobId |-> job]
  /\ jobId' = job
  /\ pc' = "query"
  /\ lastRequest' = QueryRequest(job)
  /\ resp' = NoResponse
  /\ queries' = queries + 1
  /\ UNCHANGED <<polymerConfig, others, maxAttempts, interval, attempt, result,
                 returnJob, receipt, timer, submits, sleeps, answers, outcome>>

(***************************************************************************)
(* addPolymerToEthers: what it installs on the ethers object.  Each        *)
(* installed function is a closure over the polymerConfig of the call that *)
(* installed it; a slot holds <<that configuration>>, or <<>> when empty.  *)
(***************************************************************************)
ApiKeyRequired == Err("Error", "Polymer API key is required", <<>>, 0)

\* ethers.TransactionResponse.prototype where the class is undefined
PrototypeOfUndefined ==
  Err("TypeError", "Cannot read properties of undefined (reading 'prototype')",
      <<>>, 0)

\* an ethers object before the plugin is added; the two classes exist in v6
EthersObject(hasResponse, hasReceipt) ==
  [TransactionResponse |-> hasResponse,
   TransactionReceipt |-> hasReceipt,
   txPolymerProof |-> <<>>,
   receiptPolymerProof |-> <<>>,
   txPolymerProofStatus |-> <<>>,
   receiptPolymerProofStatus |-> <<>>,
   polymer |-> <<>>]

\* the configurations addPolymerToEthers is called with
InstallConfigs ==
  { [debug |-> FALSE],
    [apiKey |-> <<"">>],
    [apiKey |-> <<"key">>],
    [apiKey |-> <<"key2">>, maxAttempts |-> MaxAttemptsArg, interval |-> 10] }

\* as InstallTxPolymerProof, without the test for a method already present
InstallTxPolymerProofAgain(e, cfg) ==
  IF e.TransactionResponse
    THEN [e EXCEPT !.txPolymerProof = <<cfg>>]
    ELSE e

\* if (ethers.TransactionResponse && !...prototype.polymerProof) { ... }
InstallTxPolymerProof(e, cfg) ==
  IF e.TransactionResponse /\ e.txPolymerProof = <<>>
    THEN [e EXCEPT !.txPolymerProof = <<cfg>>]
    ELSE e

\* if (ethers.TransactionReceipt && !...prototype.polymerProof) { ... }
InstallReceiptPolymerProof(e, cfg) ==
  IF e.TransactionReceipt /\ e.receiptPolymerProof = <<>>
    THEN [e EXCEPT !.receiptPolymerProof = <<cfg>>]
    ELSE e

\* addPolymerToEthers with the apiKey check made after the installation
addPolymerToEthersChecksLate(e, config) ==
  LET cfg == MergeConfig(DEFAULT_CONFIG, config)
      proofs == InstallReceiptPolymerProof(InstallTxPolymerProof(e, cfg), cfg)
      txStatus == [proofs EXCEPT !.txPolymerProofStatus = <<cfg>>]
      bothStatus == [txStatus EXCEPT !.receiptPolymerProofStatus = <<cfg>>]
  IN  IF ~e.TransactionResponse
        THEN [ethers |-> proofs, outcome |-> Rejected(PrototypeOfUndefined)]
      ELSE IF ~e.TransactionReceipt
        THEN [ethers |-> txStatus, outcome |-> Rejected(PrototypeOfUndefined)]
      ELSE IF ~TruthyStr(cfg.apiKey)
        THEN [ethers |-> [bothStatus EXCEPT !.polymer = <<cfg>>],
              outcome |-> Rejected(ApiKeyRequired)]
      ELSE [ethers |-> [bothStatus EXCEPT !.polymer = <<cfg>>],
            outcome |-> Fulfilled(JUndefined)]

\* the ethers object and the outcome of addPolymerToEthers(e, config)
addPolymerToEthers(e, config) ==
  LET cfg == MergeConfig(DEFAULT_CONFIG, config)
      proofs == InstallReceiptPolymerProof(InstallTxPolymerProof(e, cfg), cfg)
      txStatus == [proofs EXCEPT !.txPolymerProofStatus = <<cfg>>]
      bothStatus == [txStatus EXCEPT !.receiptPolymerProofStatus = <<cfg>>]
  IN  IF ~TruthyStr(cfg.apiKey)
        THEN [ethers |-> e, outcome |-> Rejected(ApiKeyRequired)]
      ELSE IF ~e.TransactionResponse
        THEN [ethers |-> proofs, outcome |-> Rejected(PrototypeOfUndefined)]
      ELSE IF ~e.TransactionReceipt
        THEN [ethers |-> txStatus, outcome |-> Rejected(PrototypeOfUndefined)]
      ELSE [ethers |-> [bothStatus EXCEPT !.polymer = <<cfg>>],
            outcome |-> Fulfilled(JUndefined)]

\* the operations the plugin installs
InstalledOps ==
  {"tx.polymerProof", "receipt.polymerProof", "tx.polymerProofStatus",
   "receipt.polymerProofStatus", "polymer.requestProof",
   "polymer.queryProofStatus", "polymer.wait"}

\* the closure behind operation o: the slot of the ethers object it lives in
Closure(e, o) ==
  CASE o = "tx.polymerProof" -> e.txPolymerProof
    [] o = "receipt.polymerProof" -> e.receiptPolymerProof
    [] o = "tx.polymerProofStatus" -> e.txPolymerProofStatus
    [] o = "receipt.polymerProofStatus" -> e.receiptPolymerProofStatus
    [] OTHER -> e.polymer

NotUsed == [o \in InstalledOps |-> <<>>]

\* the operations that can be called on ethers object e and its instances
Exposed(e) == { o \in InstalledOps : Closure(e, o) # <<>> }

\* a caller calls addPolymerToEthers(ethers, config)
AddPolymerToEthers(config) ==
  LET added == addPolymerToEthers(ethers, config)
  IN  /\ op' = "addPolymerToEthers"
      /\ call' = [config |-> config]
      /\ ethers' = added.ethers
      /\ outcome' = added.outcome
      /\ used' = IF added.outcome.kind = "fulfilled" THEN NotUsed ELSE used
      /\ UNCHANGED <<polymerConfig, pc, jobId, maxAttempts, interval, attempt,
                     result, returnJob, receipt, timer, lastRequest, resp,
                     submits, queries, sleeps, answers, variant, handle,
                     first, loops>>

\* a caller calls installed operation o: it runs with its closure's polymerConfig
Invoke(o) ==
  /\ Closure(ethers, o) # <<>>
  /\ op' = o
  /\ polymerConfig' = Closure(ethers, o)[1]
  /\ used' = [used EXCEPT ![o] = Closure(ethers, o)]
  /\ UNCHANGED <<call, pc, jobId, maxAttempts, interval, attempt, result,
                 returnJob, receipt, timer, lastRequest, resp, submits,
                 queries, sleeps, answers, outcome, variant, ethers,
                 handle, first, loops>>

(***************************************************************************)
(* polymerProofStatus on a transaction response and on a receipt           *)
(***************************************************************************)
JobIdRequired == Err("Error", "Job ID is required", <<>>, 0)

\* if (!jobId) throw ...; return queryProofStatus(polymerConfig, jobId)
ProofStatus(job) ==
  /\ call' = [jobId |-> job]
  /\ IF ~JTruthy(job)
       THEN /\ pc' = "done"
            /\ outcome' = Rejected(JobIdRequired)
            /\ UNCHANGED <<jobId, lastRequest, resp, queries>>
       ELSE /\ jobId' = job
            /\ pc' = "query"
            /\ lastRequest' = QueryRequest(job)
            /\ resp' = NoResponse
            /\ queries' = queries + 1
            /\ UNCHANGED outcome
  /\ UNCHANGED <<polymerConfig, others, maxAttempts, interval, attempt, result,
                 returnJob, receipt, timer, submits, sleeps, answers>>

\* tx.polymerProofStatus(jobId)
TxPolymerProofStatus(job) ==
  /\ pc = "idle"
  /\ op' = "tx.polymerProofStatus"
  /\ ProofStatus(job)

\* receipt.polymerProofStatus(jobId)
ReceiptPolymerProofStatus(job) ==
  /\ pc = "idle"
  /\ op' = "receipt.polymerProofStatus"
  /\ ProofStatus(job)

(***************************************************************************)
(* requestProof: the request it sends and what it makes of a response      *)
(***************************************************************************)
\* params = targetChainId ? [src, target, block, tx] : [src, block, tx]
requestProofParams(srcChainId, targetChainId, blockNumber, txIndex) ==
  IF TruthyNum(targetChainId)
    THEN <<srcChainId, targetChainId, blockNumber, txIndex>>
    ELSE <<srcChainId, blockNumber, txIndex>>

ProofRequest(srcChainId, targetChainId, blockNumber, txIndex) ==
  [method |-> "receipt_requestProof",
   params |-> requestProofParams(srcChainId, targetChainId, blockNumber, txIndex)]

\* requestProof looking at the envelope's error before the HTTP status
requestProofErrorFirst(r) ==
  IF r.parsable /\ TruthyStr(r.error) THEN Rejected(ApiError(r.error[1]))
  ELSE IF ~Ok(r) THEN Rejected(HttpError(r.status))
  ELSE IF ~r.parsable THEN Rejected(JsonSyntaxError)
  ELSE Fulfilled(r.result)

requestProof(r) ==
  IF ~Ok(r) THEN Rejected(HttpError(r.status))
  ELSE IF ~r.parsable THEN Rejected(JsonSyntaxError)
  ELSE IF TruthyStr(r.error) THEN Rejected(ApiError(r.error[1]))
  ELSE Fulfilled(r.result)

\* the synchronous start of requestProof: the request goes out
SendProofRequest(srcChainId, targetChainId, blockNumber, txIndex) ==
  /\ pc' = "submit"
  /\ lastRequest' = ProofRequest(srcChainId, targetChainId, blockNumber, txIndex)
  /\ resp' = NoResponse
  /\ submits' = submits + 1
  /\ outcome' = Pending

(***************************************************************************)
(* polymerProof on a transaction response and on a transaction receipt     *)
(***************************************************************************)
ChainIds == 1..MaxChainId
OptChainIds == {<<>>} \cup { <<c>> : c \in ChainIds }

\* a provider: absent, or one whose getNetwork() yields a network
Providers == {<<>>} \cup { <<[chainId |-> c]>> : c \in OptChainIds }

Receipts == { [blockNumber |-> 10, index |-> 3, provider |-> p] : p \in Providers }

\* a transaction response: wait() yields its receipt, or null (<<>>)
Transactions ==
  { [chainId |-> c, provider |-> p,
     receipt |-> IF mined
                   THEN <<[blockNumber |-> 10, index |-> 3, provider |-> p]>>
                   ELSE <<>>] :
      c \in OptChainIds, p \in Providers, mined \in BOOLEAN }

ProofOptions ==
  { [targetChainId |-> t, maxAttempts |-> m, interval |-> i, returnJob |-> j] :
      t \in OptChainIds \cup {<<0>>},
      m \in {<<>>} \cup { <<n>> : n \in (-1)..MaxAttemptsArg },
      i \in {<<>>, <<10>>},
      j \in {<<>>, <<TRUE>>} }

ReceiptNotAvailable ==
  Err("Error", "Transaction receipt not available", <<>>, 0)
ChainIdOfUndefined ==
  Err("TypeError", "Cannot read properties of undefined (reading 'chainId')",
      <<>>, 0)
ChainIdNotFoundTx ==
  Err("Error", "Chain ID not found in transaction or provider", <<>>, 0)
ProviderNotAvailable ==
  Err("Error", "Provider not available in transaction receipt", <<>>, 0)
ChainIdNotFoundProvider == Err("Error", "Chain ID not found in provider", <<>>, 0)
TargetChainIdRequired ==
  Err("Error", "targetChainId is required for proof generation", <<>>, 0)
TargetChainIdSame ==
  Err("Error", "Target chain ID must be different from source chain ID", <<>>, 0)

\* as Throw, with the proof request sent before the error is thrown
ThrowAfterSending(e) ==
  /\ pc' = "done"
  /\ outcome' = Rejected(e)
  /\ submits' = submits + 1
  /\ UNCHANGED <<jobId, maxAttempts, interval, attempt, result, returnJob,
                 receipt, timer, lastRequest, resp, queries, sleeps, answers>>

\* the call ends with error e before anything is sent
Throw(e) ==
  /\ pc' = "done"
  /\ outcome' = Rejected(e)
  /\ UNCHANGED <<jobId, maxAttempts, interval, attempt, result, returnJob,
                 receipt, timer, lastRequest, resp, submits, queries, sleeps,
                 answers>>

\* as ValidateAndRequest, taking a targetChainId of 0 as provided
ValidateAndRequestAllowsZero(srcChainId, rcpt, options) ==
  IF options.targetChainId = <<>>
    THEN Throw(TargetChainIdRequired)
  ELSE IF options.targetChainId[1] = srcChainId
    THEN Throw(TargetChainIdSame)
  ELSE
    /\ maxAttempts' = IF options.maxAttempts # <<>> THEN options.maxAttempts[1]
                      ELSE polymerConfig.maxAttempts
    /\ interval' = IF options.interval # <<>> THEN options.interval[1]
                   ELSE polymerConfig.interval
    /\ returnJob' = IF options.returnJob # <<>> THEN options.returnJob[1]
                    ELSE FALSE
    /\ receipt' = <<rcpt>>
    /\ SendProofRequest(<<srcChainId>>, options.targetChainId,
                        <<rcpt.blockNumber>>, <<rcpt.index>>)
    /\ UNCHANGED <<jobId, attempt, result, timer, queries, sleeps, answers>>

\* from "Validate targetChainId" to the requestProof call
ValidateAndRequest(srcChainId, rcpt, options) ==
  IF ~TruthyNum(options.targetChainId)
    THEN Throw(TargetChainIdRequired)
  ELSE IF options.targetChainId[1] = srcChainId
    THEN Throw(TargetChainIdSame)
  ELSE
    /\ maxAttempts' = IF options.maxAttempts # <<>> THEN options.maxAttempts[1]
                      ELSE polymerConfig.maxAttempts
    /\ interval' = IF options.interval # <<>> THEN options.interval[1]
                   ELSE polymerConfig.interval
    /\ returnJob' = IF options.returnJob # <<>> THEN options.returnJob[1]
                    ELSE FALSE
    /\ receipt' = <<rcpt>>
    /\ SendProofRequest(<<srcChainId>>, options.targetChainId,
                        <<rcpt.blockNumber>>, <<rcpt.index>>)
    /\ UNCHANGED <<jobId, attempt, result, timer, queries, sleeps, answers>>

\* the error a promise of ethers is rejected with: tx.wait() or
\* provider.getNetwork(), named by at
AwaitedError(at) == Err("Error", "rejected", <<at>>, 0)

\* the async function is suspended at an await on a promise of ethers:
\* nothing has been sent and its own promise is pending
Suspend(at) ==
  /\ pc' = at
  /\ UNCHANGED <<jobId, maxAttempts, interval, attempt, result, returnJob,
                 receipt, timer, lastRequest, resp, submits, queries, sleeps,
                 answers, outcome>>

\* tx.polymerProof(options): const receipt = await this.wait()
TxPolymerProof(tx, options) ==
  /\ pc = "idle"
  /\ op' = "tx.polymerProof"
  /\ call' = [tx |-> tx, options |-> options]
  /\ UNCHANGED <<polymerConfig, others>>
  /\ Suspend("tx.wait")

\* as TxWaitResolved, with the chain id looked up before the receipt is
\* tested
TxWaitResolvedChainFirst ==
  /\ pc = "tx.wait"
  /\ UNCHANGED <<polymerConfig, others, op, call>>
  /\ IF TruthyNum(call.tx.chainId)
       THEN IF call.tx.receipt = <<>>
              THEN Throw(ReceiptNotAvailable)
              ELSE ValidateAndRequest(call.tx.chainId[1], call.tx.receipt[1],
                                      call.options)
     ELSE IF call.tx.provider = <<>>
       THEN Throw(ChainIdOfUndefined)
       ELSE Suspend("tx.getNetwork")

\* tx.wait() has resolved, with the receipt or with null: from the test of
\* the receipt to await this.provider.getNetwork(), which is reached when
\* the transaction has no chainId, or else to the requestProof call
TxWaitResolved ==
  /\ pc = "tx.wait"
  /\ UNCHANGED <<polymerConfig, others, op, call>>
  /\ IF call.tx.receipt = <<>>
       THEN Throw(ReceiptNotAvailable)
     ELSE IF TruthyNum(call.tx.chainId)
       THEN ValidateAndRequest(call.tx.chainId[1], call.tx.receipt[1],
                               call.options)
     ELSE IF call.tx.provider = <<>>
       THEN Throw(ChainIdOfUndefined)
       ELSE Suspend("tx.getNetwork")

\* this.provider.getNetwork() has resolved in tx.polymerProof
TxNetworkResolved ==
  /\ pc = "tx.getNetwork"
  /\ UNCHANGED <<polymerConfig, others, op, call>>
  /\ LET chainId == call.tx.provider[1].chainId
     IN  IF ~TruthyNum(chainId)
           THEN Throw(ChainIdNotFoundTx)
           ELSE ValidateAndRequest(chainId[1], call.tx.receipt[1],
                                   call.options)

\* receipt.polymerProof(options): up to await provider.getNetwork()
ReceiptPolymerProof(rcpt, options) ==
  /\ pc = "idle"
  /\ op' = "receipt.polymerProof"
  /\ call' = [receipt |-> rcpt, options |-> options]
  /\ UNCHANGED <<polymerConfig, others>>
  /\ IF rcpt.provider = <<>>
       THEN Throw(ProviderNotAvailable)
       ELSE Suspend("getNetwork")

\* provider.getNetwork() has resolved in receipt.polymerProof
ReceiptNetworkResolved ==
  /\ pc = "getNetwork"
  /\ variant = "receipt"
  /\ UNCHANGED <<polymerConfig, others, op, call>>
  /\ LET chainId == call.receipt.provider[1].chainId
     IN  IF ~TruthyNum(chainId)
           THEN Throw(ChainIdNotFoundProvider)
           ELSE ValidateAndRequest(chainId[1], call.receipt, call.options)

\* the positions at which polymerProof is suspended on a promise of ethers
Awaits == {"tx.wait", "tx.getNetwork", "getNetwork"}

\* the awaited promise rejects: the await throws and polymerProof rejects
\* with the same error
AwaitRejected ==
  /\ pc \in Awaits
  /\ UNCHANGED <<polymerConfig, others, op, call>>
  /\ Throw(AwaitedError(pc))

\* while polymerProof is suspended the caller changes the options object it
\* has passed; the function reads the options when it goes on
OptionsChanged(options) ==
  /\ pc \in Awaits
  /\ options # call.options
  /\ call' = [call EXCEPT !.options = options]
  /\ UNCHANGED <<polymerConfig, others, op>>
  /\ Suspend(pc)

\* ethers.polymer.requestProof(params)
RequestParams ==
  { [chainId |-> c, blockNumber |-> <<10>>, txIndex |-> <<3>>,
     targetChainId |-> t] :
      c \in OptChainIds, t \in OptChainIds \cup {<<0>>} }

PolymerRequestProof(params) ==
  /\ pc = "idle"
  /\ op' = "polymer.requestProof"
  /\ call' = [params |-> params]
  /\ SendProofRequest(params.chainId, params.targetChainId,
                      params.blockNumber, params.txIndex)
  /\ UNCHANGED <<polymerConfig, others, jobId, maxAttempts, interval, attempt, result,
                 returnJob, receipt, timer, queries, sleeps, answers>>

\* as SubmitRespond, going on to wait whatever returnJob says
SubmitRespondIgnoresReturnJob(r) ==
  /\ pc = "submit"
  /\ UNCHANGED <<polymerConfig, variant, ethers, used, first, loops, op, call,
                 returnJob, receipt, submits>>
  /\ LET q == requestProof(r) IN
       IF q.kind = "rejected"
         THEN /\ pc' = "done"
              /\ outcome' = q
              /\ resp' = r
              /\ UNCHANGED <<jobId, maxAttempts, interval, attempt, result,
                             timer, lastRequest, queries, sleeps, answers,
                             handle>>
       ELSE IF op = "polymer.requestProof"
         THEN /\ pc' = "done"
              /\ outcome' = q
              /\ resp' = r
              /\ UNCHANGED <<jobId, maxAttempts, interval, attempt, result,
                             timer, lastRequest, queries, sleeps, answers,
                             handle>>
       ELSE /\ handle' = q.value
            /\ WaitEnter(q.value, maxAttempts, interval, r)

\* as SubmitRespond, with ethers.polymer.requestProof going on to poll for
\* the job it has created
SubmitRespondThenPolls(r) ==
  /\ pc = "submit"
  /\ UNCHANGED <<polymerConfig, variant, ethers, used, first, loops, op, call,
                 returnJob, receipt, submits>>
  /\ LET q == requestProof(r) IN
       IF q.kind = "rejected"
         THEN /\ pc' = "done"
              /\ outcome' = q
              /\ resp' = r
              /\ UNCHANGED <<jobId, maxAttempts, interval, attempt, result,
                             timer, lastRequest, queries, sleeps, answers,
                             handle>>
       ELSE IF returnJob
         THEN /\ pc' = "done"
              /\ outcome' = Fulfilled([t |-> "job", jobId |-> q.value,
                                       receipt |-> receipt[1]])
              /\ resp' = r
              /\ handle' = q.value
              /\ UNCHANGED <<jobId, maxAttempts, interval, attempt, result,
                             timer, lastRequest, queries, sleeps, answers>>
       ELSE /\ handle' = q.value
            /\ WaitEnter(q.value,
                         IF op = "polymer.requestProof"
                           THEN polymerConfig.maxAttempts ELSE maxAttempts,
                         IF op = "polymer.requestProof"
                           THEN polymerConfig.interval ELSE interval,
                         r)

\* the proof service answers the outstanding proof request with r
SubmitRespond(r) ==
  /\ pc = "submit"
  /\ UNCHANGED <<polymerConfig, variant, ethers, used, first, loops, op, call,
                 returnJob, receipt, submits>>
  /\ LET q == requestProof(r) IN
       IF q.kind = "rejected"
         THEN /\ pc' = "done"
              /\ outcome' = q
              /\ resp' = r
              /\ UNCHANGED <<jobId, maxAttempts, interval, attempt, result,
                             timer, lastRequest, queries, sleeps, answers,
                             handle>>
       ELSE IF op = "polymer.requestProof"
         THEN /\ pc' = "done"
              /\ outcome' = q
              /\ resp' = r
              /\ UNCHANGED <<jobId, maxAttempts, interval, attempt, result,
                             timer, lastRequest, queries, sleeps, answers,
                             handle>>
       ELSE IF returnJob
         THEN /\ pc' = "done"
              /\ outcome' = Fulfilled([t |-> "job", jobId |-> q.value,
                                       receipt |-> receipt[1]])
              /\ resp' = r
              /\ handle' = q.value
              /\ UNCHANGED <<jobId, maxAttempts, interval, attempt, result,
                             timer, lastRequest, queries, sleeps, answers>>
       ELSE /\ handle' = q.value
            /\ WaitEnter(q.value, maxAttempts, interval, r)

(***************************************************************************)
(* The log variant of the plugin (src/unnamed/part_001): proofs of single  *)
(* event logs.  receipt.polymerProof resolves the log index from an event  *)
(* signature; requests are log_requestProof with four positional params.   *)
(***************************************************************************)
MaxLogs == 2   \* largest number of logs in a receipt

\* event signatures and ethers.id of them (keccak256 of the UTF-8 text)
EventSignatures ==
  {"Transfer(address,address,uint256)", "Approval(address,address,uint256)",
   "Deposit(address,uint256)"}

Id(signature) ==
  CASE signature = "Transfer(address,address,uint256)" ->
         "0xddf252ad1be2c89b69c2b068fc378daa952ba7f163c4a11628f55a4df523b3ef"
    [] signature = "Approval(address,address,uint256)" ->
         "0x8c5be1e5ebec7d5bd14f71427d1e84f3dd0314c0f7b2291e5b200ac8c7c3b925"
    [] signature = "Deposit(address,uint256)" ->
         "0xe1fffcc4923d04b559f4d29a8bfc6cda04eb5b0d3c460751c2402c5c5cc9109c"

\* the topics of a log: none (an anonymous event), or the event's topic first
LogTopics ==
  { <<>>,
    <<Id("Transfer(address,address,uint256)")>>,
    <<Id("Approval(address,address,uint256)")>> }

LogLists ==
  UNION { [1..n -> { [topics |-> t] : t \in LogTopics }] : n \in 0..MaxLogs }

LogReceipts ==
  { [blockNumber |-> 10, index |-> 3, provider |-> p, logs |-> l] :
      p \in {<<>>, <<[chainId |-> <<1>>]>>}, l \in LogLists }

LogProofOptions ==
  { [eventSignature |-> e, logIndex |-> i, maxAttempts |-> m,
     interval |-> <<10>>, returnJob |-> j] :
      e \in {<<>>, <<"">>} \cup { <<g>> : g \in EventSignatures },
      i \in {<<>>, <<-1>>, <<0>>, <<1>>},
      m \in {<<1>>, <<2>>},
      j \in {<<>>, <<TRUE>>} }

\* logs.findIndex((log) => log.topics[0] === eventTopic), searching from i on
RECURSIVE FindIndexFrom(_, _, _)
FindIndexFrom(logs, eventTopic, i) ==
  IF i > Len(logs) THEN -1
  ELSE IF logs[i].topics # <<>> /\ logs[i].topics[1] = eventTopic THEN i - 1
  ELSE FindIndexFrom(logs, eventTopic, i + 1)

\* findIndex returning the position of the last matching log
FindIndexLast(logs, eventTopic) ==
  LET matching == { i \in 1..Len(logs) :
                      logs[i].topics # <<>> /\ logs[i].topics[1] = eventTopic }
  IN  IF matching = {} THEN -1
      ELSE (CHOOSE i \in matching : \A j \in matching : j <= i) - 1

FindIndex(logs, eventTopic) == FindIndexFrom(logs, eventTopic, 1)

SignatureOrIndexRequired ==
  Err("Error", "eventSignature or logIndex is required", <<>>, 0)
LogIndexNegative == Err("Error", "logIndex must be non-negative", <<>>, 0)
EventNotFound(signature) ==
  Err("Error", "Event not found in transaction receipt", <<signature>>, 0)

\* params = [srcChainId, srcBlockNumber, txIndex, localLogIndex]
LogProofRequest(srcChainId, srcBlockNumber, txIndex, localLogIndex) ==
  [method |-> "log_requestProof",
   params |-> <<srcChainId, srcBlockNumber, txIndex, localLogIndex>>]

\* the synchronous start of requestProof: the request goes out
SendLogProofRequest(srcChainId, srcBlockNumber, txIndex, localLogIndex) ==
  /\ pc' = "submit"
  /\ lastRequest' =
       LogProofRequest(srcChainId, srcBlockNumber, txIndex, localLogIndex)
  /\ resp' = NoResponse
  /\ submits' = submits + 1
  /\ outcome' = Pending

\* as ResolveAndRequest, with the logs scanned whenever an eventSignature is
\* given: the signature takes precedence over a supplied logIndex
ResolveAndRequestSignatureFirst(srcChainId, rcpt, options) ==
  IF ~TruthyStr(options.eventSignature) /\ options.logIndex = <<>>
    THEN Throw(SignatureOrIndexRequired)
  ELSE IF options.logIndex # <<>> /\ options.logIndex[1] < 0
    THEN Throw(LogIndexNegative)
  ELSE
    LET foundIndex == FindIndex(rcpt.logs, Id(options.eventSignature[1]))
    IN  IF TruthyStr(options.eventSignature) /\ foundIndex = -1
          THEN Throw(EventNotFound(options.eventSignature[1]))
        ELSE
          /\ maxAttempts' = IF options.maxAttempts # <<>>
                              THEN options.maxAttempts[1]
                              ELSE polymerConfig.maxAttempts
          /\ interval' = IF options.interval # <<>> THEN options.interval[1]
                         ELSE polymerConfig.interval
          /\ returnJob' = IF options.returnJob # <<>> THEN options.returnJob[1]
                          ELSE FALSE
          /\ receipt' = <<rcpt>>
          /\ SendLogProofRequest(
               <<srcChainId>>, <<rcpt.blockNumber>>, <<rcpt.index>>,
               IF TruthyStr(options.eventSignature) THEN <<foundIndex>>
               ELSE options.logIndex)
          /\ UNCHANGED <<jobId, attempt, result, timer, queries, sleeps,
                         answers>>

\* from "Set options with defaults from config" to the requestProof call
ResolveAndRequest(srcChainId, rcpt, options) ==
  IF ~TruthyStr(options.eventSignature) /\ options.logIndex = <<>>
    THEN Throw(SignatureOrIndexRequired)
  ELSE IF options.logIndex # <<>> /\ options.logIndex[1] < 0
    THEN Throw(LogIndexNegative)
  ELSE
    LET foundIndex == FindIndex(rcpt.logs, Id(options.eventSignature[1]))
    IN  IF options.logIndex = <<>> /\ foundIndex = -1
          THEN Throw(EventNotFound(options.eventSignature[1]))
        ELSE
          /\ maxAttempts' = IF options.maxAttempts # <<>>
                              THEN options.maxAttempts[1]
                              ELSE polymerConfig.maxAttempts
          /\ interval' = IF options.interval # <<>> THEN options.interval[1]
                         ELSE polymerConfig.interval
          /\ returnJob' = IF options.returnJob # <<>> THEN options.returnJob[1]
                          ELSE FALSE
          /\ receipt' = <<rcpt>>
          /\ SendLogProofRequest(
               <<srcChainId>>, <<rcpt.blockNumber>>, <<rcpt.index>>,
               IF options.logIndex # <<>> THEN options.logIndex
               ELSE <<foundIndex>>)
          /\ UNCHANGED <<jobId, attempt, result, timer, queries, sleeps,
                         answers>>

\* receipt.polymerProof(options) of the log variant: up to
\* await provider.getNetwork()
LogReceiptPolymerProof(rcpt, options) ==
  /\ pc = "idle"
  /\ op' = "receipt.polymerProof"
  /\ call' = [receipt |-> rcpt, options |-> options]
  /\ UNCHANGED <<polymerConfig, others>>
  /\ IF rcpt.provider = <<>>
       THEN Throw(ProviderNotAvailable)
       ELSE Suspend("getNetwork")

\* provider.getNetwork() has resolved in receipt.polymerProof of the log
\* variant: the options and the logs are read now
LogNetworkResolved ==
  /\ pc = "getNetwork"
  /\ variant = "log"
  /\ UNCHANGED <<polymerConfig, others, op, call>>
  /\ LET chainId == call.receipt.provider[1].chainId
     IN  IF ~TruthyNum(chainId)
           THEN Throw(ChainIdNotFoundProvider)
           ELSE ResolveAndRequest(chainId[1], call.receipt, call.options)

\* while polymerProof is suspended the logs of the receipt change
LogsChanged(logs) ==
  /\ pc = "getNetwork"
  /\ logs # call.receipt.logs
  /\ call' = [call EXCEPT !.receipt.logs = logs]
  /\ UNCHANGED <<polymerConfig, others, op>>
  /\ Suspend(pc)

\* the params of ethers.polymer.requestProof of the log variant
LogRequestParams ==
  { [srcChainId |-> <<1>>, srcBlockNumber |-> <<10>>, txIndex |-> <<3>>,
     logIndex |-> i, eventSignature |-> e] :
      i \in {<<>>, <<-1>>, <<0>>, <<1>>},
      e \in {<<>>, <<"Transfer(address,address,uint256)">>} }

\* ethers.polymer.requestProof(params) of the log variant
LogPolymerRequestProof(params) ==
  /\ pc = "idle"
  /\ op' = "polymer.requestProof"
  /\ call' = [params |-> params]
  /\ SendLogProofRequest(params.srcChainId, params.srcBlockNumber,
                         params.txIndex, params.logIndex)
  /\ UNCHANGED <<polymerConfig, others, jobId, maxAttempts, interval, attempt,
                 result, returnJob, receipt, timer, queries, sleeps, answers>>

(***************************************************************************)
(* Several calls of wait in flight at once.  Each call of the async        *)
(* function has its own jobId, maxAttempts, interval, attempt and result;  *)
(* a loop is the record of them, with its position and what it has done.   *)
(***************************************************************************)
NumLoops == 2          \* number of wait calls in flight at once
MaxLoopAttempts == 2   \* largest maxAttempts of a concurrent wait call

\* the job handle loop i polls
JobHandles == <<"job-1", "job-2", "job-3", "job-4">>
JobOf(i) == JString(JobHandles[i])

\* a wait call that has not been made yet
NoLoop ==
  [jobId |-> JUndefined, maxAttempts |-> 0, interval |-> 0, attempt |-> 0,
   result |-> NoValue, pc |-> "idle", lastRequest |-> NoRequest,
   queries |-> 0, sleeps |-> 0, answers |-> <<>>, outcome |-> Pending]

\* what the service answers a concurrent loop's status query
LoopResponses ==
  { Response(200, TRUE, <<>>, JObject(<<"pending">>, <<>>, <<>>)),
    Response(200, TRUE, <<>>, JObject(<<"complete">>, <<>>, <<"0xabcd">>)),
    Response(200, TRUE, <<>>, JObject(<<"error">>, <<"out of gas">>, <<>>)),
    Response(500, TRUE, <<>>, JUndefined) }

\* entering wait(config, job, max, ms): the first loop test and status query
LoopEnter(job, max, ms) ==
  LET l == [NoLoop EXCEPT !.jobId = job, !.maxAttempts = max,
                          !.interval = ms, !.attempt = 1]
  IN  IF 1 <= max
        THEN [l EXCEPT !.pc = "query", !.lastRequest = QueryRequest(job),
                       !.queries = 1]
        ELSE [l EXCEPT !.pc = "done", !.outcome = Rejected(TimeoutError(max))]

\* the loop body of l after the status query returned res
LoopIteration(l, res) ==
  LET got == [l EXCEPT !.result = res]
  IN  IF res.t \in {"undefined", "null"}
        THEN [got EXCEPT !.pc = "done",
                         !.outcome = Rejected(StatusOfNullish(res))]
      ELSE IF res.status = <<"complete">>
        THEN [got EXCEPT !.pc = "done", !.outcome = Fulfilled(res)]
      ELSE IF res.status = <<"error">>
        THEN [got EXCEPT !.pc = "done",
                         !.outcome =
                           Rejected(ProofFailedError(FailureReason(res)))]
      ELSE IF l.attempt < l.maxAttempts
        THEN [got EXCEPT !.pc = "sleep", !.sleeps = @ + 1]
      ELSE [got EXCEPT !.pc = "done", !.attempt = @ + 1,
                       !.outcome = Rejected(TimeoutError(l.maxAttempts))]

\* the status query of l is answered with r
LoopRespond(l, r) ==
  LET q == queryProofStatus(r)
      heard == [l EXCEPT !.answers = Append(@, r)]
  IN  IF q.kind = "rejected"
        THEN [heard EXCEPT !.pc = "done", !.outcome = q]
        ELSE LoopIteration(heard, q.value)

\* as LoopWake, with one attempt counter shared by all the loops
LoopWakeSharedCounter(l) ==
  LET shared == CHOOSE n \in { loops[i].attempt : i \in DOMAIN loops } :
                  \A i \in DOMAIN loops : loops[i].attempt <= n
      woken == [l EXCEPT !.attempt = shared + 1, !.result = NoValue]
  IN  IF shared + 1 <= l.maxAttempts
        THEN [woken EXCEPT !.pc = "query",
                           !.lastRequest = QueryRequest(l.jobId),
                           !.queries = @ + 1]
        ELSE [woken EXCEPT !.pc = "done",
                           !.outcome = Rejected(TimeoutError(l.maxAttempts))]

\* the timer of l's sleep fires: attempt++, the loop test, the next query
LoopWake(l) ==
  LET woken == [l EXCEPT !.attempt = @ + 1, !.result = NoValue]
  IN  IF l.attempt + 1 <= l.maxAttempts
        THEN [woken EXCEPT !.pc = "query",
                           !.lastRequest = QueryRequest(l.jobId),
                           !.queries = @ + 1]
        ELSE [woken EXCEPT !.pc = "done",
                           !.outcome = Rejected(TimeoutError(l.maxAttempts))]

\* the variables of the single call, which concurrent loops do not touch
callVars ==
  <<polymerConfig, op, call, pc, jobId, maxAttempts, interval, attempt, result,
    returnJob, receipt, timer, lastRequest, resp, submits, queries, sleeps,
    answers, outcome, variant, ethers, used, handle, first>>

\* a caller calls ethers.polymer.wait(job of loop i, max, 10):
\* maxAttempts || polymerConfig.maxAttempts, interval || polymerConfig.interval
LoopStart(i, max) ==
  /\ loops[i].pc = "idle"
  /\ loops' = [loops EXCEPT ![i] =
                LoopEnter(JobOf(i),
                          IF max # 0 THEN max ELSE polymerConfig.maxAttempts,
                          IF 10 # 0 THEN 10 ELSE polymerConfig.interval)]
  /\ UNCHANGED callVars

\* the proof service answers the status query of loop i with r
LoopQueryRespond(i, r) ==
  /\ loops[i].pc = "query"
  /\ loops' = [loops EXCEPT ![i] = LoopRespond(loops[i], r)]
  /\ UNCHANGED callVars

\* the timer of loop i fires
LoopSleepDone(i) ==
  /\ loops[i].pc = "sleep"
  /\ loops' = [loops EXCEPT ![i] = LoopWake(loops[i])]
  /\ UNCHANGED callVars

(***************************************************************************)
(* The specification                                                       *)
(***************************************************************************)
\* no operation has been called yet
Idle ==
  /\ op = "none"
  /\ call = NoCall
  /\ pc = "idle"
  /\ jobId = JUndefined
  /\ maxAttempts = 0
  /\ interval = 0
  /\ attempt = 0
  /\ result = NoValue
  /\ returnJob = FALSE
  /\ receipt = <<>>
  /\ timer = <<>>
  /\ lastRequest = NoRequest
  /\ resp = NoResponse
  /\ submits = 0
  /\ queries = 0
  /\ sleeps = 0
  /\ answers = <<>>
  /\ outcome = Pending
  /\ handle = NoValue

\* addPolymerToEthers(ethers, c) has run once on the ethers v6 object
Init ==
  /\ \E c \in UserConfigs :
       /\ polymerConfig = MergeConfig(DEFAULT_CONFIG, c)
       /\ ethers = addPolymerToEthers(EthersObject(TRUE, TRUE), c).ethers
  /\ Idle
  /\ variant = "receipt"
  /\ used = NotUsed
  /\ first = NoRun
  /\ loops = <<>>

QueryResponds == \E r \in QueryResponses : QueryRespond(r)

SubmitResponds == \E r \in SubmitResponses : SubmitRespond(r)

\* a caller calls one of the installed operations
Call ==
  /\ pc = "idle"
  /\ \/ \E job \in JobIdArgs, max \in MaxAttemptsArgs, ms \in IntervalArgs :
          PolymerWait(job, max, ms)
     \/ \E job \in JobIdArgs : PolymerQueryProofStatus(job)
     \/ \E job \in JobIdArgs : TxPolymerProofStatus(job)
     \/ \E job \in JobIdArgs : ReceiptPolymerProofStatus(job)
     \/ \E params \in RequestParams : PolymerRequestProof(params)
     \/ \E tx \in Transactions, options \in ProofOptions :
          TxPolymerProof(tx, options)
     \/ \E rcpt \in Receipts, options \in ProofOptions :
          ReceiptPolymerProof(rcpt, options)

OptionsChange == \E options \in ProofOptions : OptionsChanged(options)

Next ==
  \/ Call
  \/ TxWaitResolved
  \/ TxNetworkResolved
  \/ ReceiptNetworkResolved
  \/ AwaitRejected
  \/ OptionsChange
  \/ SubmitResponds
  \/ QueryResponds
  \/ SleepDone

Spec == Init /\ [][Next]_vars

(***************************************************************************)
(* The specification of the log variant: one call of receipt.polymerProof  *)
(* or of ethers.polymer.requestProof against the proof service             *)
(***************************************************************************)
\* the log variant installs no polymerProof on transaction responses
LogInit ==
  /\ polymerConfig =
       MergeConfig(DEFAULT_CONFIG,
                   [apiKey |-> <<"key">>, maxAttempts |-> MaxAttemptsArg,
                    interval |-> 10])
  /\ Idle
  /\ variant = "log"
  /\ ethers = [addPolymerToEthers(EthersObject(TRUE, TRUE),
                                  [apiKey |-> <<"key">>,
                                   maxAttempts |-> MaxAttemptsArg,
                                   interval |-> 10]).ethers
                 EXCEPT !.txPolymerProof = <<>>]
  /\ used = NotUsed
  /\ first = NoRun
  /\ loops = <<>>

LogCall ==
  /\ pc = "idle"
  /\ \/ \E rcpt \in LogReceipts, options \in LogProofOptions :
          LogReceiptPolymerProof(rcpt, options)
     \/ \E params \in LogRequestParams : LogPolymerRequestProof(params)

LogOptionsChange == \E options \in LogProofOptions : OptionsChanged(options)

LogsChange == \E logs \in LogLists : LogsChanged(logs)

LogNext ==
  \/ LogCall
  \/ LogNetworkResolved
  \/ AwaitRejected
  \/ LogOptionsChange
  \/ LogsChange
  \/ SubmitResponds
  \/ QueryResponds
  \/ SleepDone

LogSpec == LogInit /\ [][LogNext]_vars

(***************************************************************************)
(* The specification of concurrent polling: NumLoops calls of              *)
(* ethers.polymer.wait, one per job handle, whose steps interleave freely  *)
(***************************************************************************)
ConcInit ==
  /\ \E c \in UserConfigs :
       /\ polymerConfig = MergeConfig(DEFAULT_CONFIG, c)
       /\ ethers = addPolymerToEthers(EthersObject(TRUE, TRUE), c).ethers
  /\ Idle
  /\ variant = "receipt"
  /\ used = NotUsed
  /\ first = NoRun
  /\ loops = [i \in 1..NumLoops |-> NoLoop]

LoopStarts ==
  \E i \in DOMAIN loops, max \in (-1)..MaxLoopAttempts : LoopStart(i, max)

LoopQueryResponds ==
  \E i \in DOMAIN loops, r \in LoopResponses : LoopQueryRespond(i, r)

LoopSleepsDone == \E i \in DOMAIN loops : LoopSleepDone(i)

ConcNext ==
  \/ LoopStarts
  \/ LoopQueryResponds
  \/ LoopSleepsDone

ConcSpec == ConcInit /\ [][ConcNext]_vars

(***************************************************************************)
(* The specification of installation: addPolymerToEthers is called any     *)
(* number of times on one ethers object, and installed operations are      *)
(* called in between                                                       *)
(***************************************************************************)
InstallInit ==
  /\ polymerConfig = DEFAULT_CONFIG
  /\ Idle
  /\ variant = "receipt"
  /\ ethers \in { EthersObject(a, b) : a, b \in BOOLEAN }
  /\ used = NotUsed
  /\ first = NoRun
  /\ loops = <<>>

AddsPolymerToEthers == \E config \in InstallConfigs : AddPolymerToEthers(config)

Invokes == \E o \in InstalledOps : Invoke(o)

InstallNext ==
  \/ AddsPolymerToEthers
  \/ Invokes

InstallSpec == InstallInit /\ [][InstallNext]_vars

TypeOK ==
  /\ pc \in {"idle", "submit", "query", "sleep", "done"} \cup Awaits
  /\ outcome.kind \in {"pending", "fulfilled", "rejected"}
  /\ (pc = "done") = (outcome.kind # "pending")

\* every request is eventually answered and every timer eventually fires
LiveSpec ==
  /\ Spec
  /\ WF_vars(SubmitResponds)
  /\ WF_vars(QueryResponds)
  /\ WF_vars(SleepDone)

(***************************************************************************)
(* The specification of both variants: one call against the plugin file    *)
(* that was loaded                                                         *)
(***************************************************************************)
VariantsInit == Init \/ LogInit

VariantsNext ==
  \/ variant = "receipt" /\ Next
  \/ variant = "log" /\ LogNext

VariantsSpec == VariantsInit /\ [][VariantsNext]_vars

\* every timer eventually fires; the proof service may leave a request
\* unanswered for ever
SilentSpec ==
  /\ Spec
  /\ WF_vars(SleepDone)

(***************************************************************************)
(* Vocabulary of the claims                                                *)
(***************************************************************************)
\* the call has entered wait
Waiting == attempt >= 1

\* polymerProof is suspended on tx.wait() or getNetwork()
Suspended == pc \in Awaits

\* polymerProof has ended because tx.wait() or getNetwork() was rejected
AwaitFailed == \E at \in Awaits : outcome = Rejected(AwaitedError(at))

\* the call has gone on past the promises of ethers it awaits, if any
Resumed == pc # "idle" /\ ~Suspended /\ ~AwaitFailed

\* nothing is sent, and when the call has gone on past the promises it
\* awaits it has failed with error e
FailsUnsent(e) ==
  /\ submits = 0
  /\ Resumed => (pc = "done" /\ outcome = Rejected(e))

Last(seq) == seq[Len(seq)]

\* every answer before the last one was a non-terminal status
PendingBefore(k) == \A i \in 1..(k - 1) : answers[i] = "pending"

AllPending == \A i \in 1..Len(answers) : answers[i] = "pending"

TimedOut ==
  /\ outcome.kind = "rejected"
  /\ outcome.error.message = "Proof generation timed out after "

ProofFailed ==
  /\ outcome.kind = "rejected"
  /\ outcome.error.message = "Proof generation failed: "

ReturnedComplete ==
  /\ outcome.kind = "fulfilled"
  /\ outcome.value.t = "object"
  /\ outcome.value.status = <<"complete">>

\* the error of a failed status query, or of reading a response without a
\* result, came out of wait as it was raised
QueryErrorPropagated ==
  /\ outcome.kind = "rejected"
  /\ outcome.error.message \in
       {"HTTP error! status: ", "Unexpected token in JSON",
        "Polymer API error: ",
        StatusOfNullish(JUndefined).message}

(***************************************************************************)
(* C1. A wait with maxAttempts = N >= 1 whose status queries all answer a  *)
(* non-terminal status never issues more than N queries, and ends after    *)
(* exactly N queries and N answers with the timeout error reporting N.     *)
(***************************************************************************)
C1_TimeoutAfterN ==
  (Waiting /\ maxAttempts >= 1 /\ AllPending) =>
    /\ queries <= maxAttempts
    /\ pc = "done" =>
         /\ queries = maxAttempts
         /\ Len(answers) = maxAttempts
         /\ outcome = Rejected(TimeoutError(maxAttempts))
         /\ outcome.error.n = maxAttempts

C1_Witness ==
  /\ op = "polymer.wait"
  /\ call.maxAttempts = <<MaxAttemptsArg>>
  /\ pc = "done"
  /\ AllPending
  /\ queries = MaxAttemptsArg
  /\ TimedOut

(***************************************************************************)
(* C2. When the answers to attempts 1..k-1 are pending and the answer to   *)
(* attempt k <= N is complete, wait has issued exactly k queries and has   *)
(* returned the result object of the k-th response, unchanged.             *)
(***************************************************************************)
C2_CompleteOnK ==
  (Waiting /\ answers # <<>> /\ Last(answers) = "complete"
     /\ PendingBefore(Len(answers))) =>
    /\ Len(answers) <= maxAttempts
    /\ pc = "done"
    /\ queries = Len(answers)
    /\ outcome = Fulfilled(resp.result)
    /\ resp.result.status = <<"complete">>

C2_Witness ==
  /\ Waiting
  /\ pc = "done"
  /\ maxAttempts = 3
  /\ answers = <<"pending", "complete">>
  /\ queries = 2
  /\ outcome.kind = "fulfilled"
  /\ outcome.value.proof = <<"0xabcd">>

(***************************************************************************)
(* C3 as claimed: when the answers to attempts 1..k-1 are pending and the  *)
(* answer to attempt k < N has status "error", wait has issued exactly k   *)
(* queries, issues no further one, and has failed with the proof-failed    *)
(* error that carries the failureReason of that response.                  *)
(***************************************************************************)
\* attempt k < N was answered "error" after k - 1 pending answers
FailedOnK ==
  /\ Waiting
  /\ answers # <<>>
  /\ Last(answers) = "failed"
  /\ PendingBefore(Len(answers))
  /\ Len(answers) < maxAttempts

\* exactly k queries were issued and wait has failed with the proof-failed
\* error
FailedAfterK ==
  /\ pc = "done"
  /\ queries = Len(answers)
  /\ lastRequest.method = "receipt_queryProof"
  /\ ProofFailed

C3_ReasonOfResponse ==
  FailedOnK =>
    /\ FailedAfterK
    /\ outcome.error.detail = resp.result.failureReason

(***************************************************************************)
(* C3 as amended. The same, the error carrying the failureReason of that   *)
(* response when it has a non-empty one and "Unknown error" when its       *)
(* failureReason is absent or empty.                                       *)
(***************************************************************************)
C3_FailedOnK ==
  FailedOnK =>
    /\ FailedAfterK
    /\ outcome.error.detail =
         IF TruthyStr(resp.result.failureReason)
           THEN resp.result.failureReason
           ELSE <<"Unknown error">>

\* the second of three attempts was answered "error" with an empty
\* failureReason
C3_Witness ==
  /\ FailedOnK
  /\ FailedAfterK
  /\ maxAttempts = 3
  /\ answers = <<"pending", "failed">>
  /\ queries = 2
  /\ resp.result.failureReason = <<"">>
  /\ outcome.error.detail = <<"Unknown error">>

(***************************************************************************)
(* C4 as claimed: a transport or remote error raised by a status query     *)
(* while attempts remain does not end the loop.                            *)
(***************************************************************************)
C4_ErrorAbsorbed ==
  (Waiting /\ answers # <<>> /\ Last(answers) \in {"transport", "remote"}
     /\ Len(answers) < maxAttempts) =>
    pc # "done"

(***************************************************************************)
(* C4 as amended. A transport or remote error raised by a status query in  *)
(* the polling loop ends the loop at once: wait fails with that error and  *)
(* no further status query is issued.                                      *)
(***************************************************************************)
C4_ErrorAborts ==
  (Waiting /\ answers # <<>> /\ Last(answers) \in {"transport", "remote"}) =>
    /\ pc = "done"
    /\ queries = Len(answers)
    /\ outcome.kind = "rejected"
    /\ Last(answers) = "remote" =>
         outcome.error = ApiError(resp.error[1])
    /\ Last(answers) = "transport" =>
         outcome.error \in {HttpError(resp.status), JsonSyntaxError}

C4_Witness ==
  /\ Waiting
  /\ pc = "done"
  /\ maxAttempts = 3
  /\ answers = <<"pending", "transport">>
  /\ queries = 2
  /\ outcome.error = HttpError(500)

(***************************************************************************)
(* C5 as claimed: a poll loop that has ended has ended in one of the three *)
(* exits complete, proof-failed, timeout.                                  *)
(***************************************************************************)
C5_ThreeExits ==
  (Waiting /\ pc = "done") => (ReturnedComplete \/ ProofFailed \/ TimedOut)

(***************************************************************************)
(* C5 as amended. Once a poll loop has started, and every status query is  *)
(* answered and every timer fires, it terminates, and it terminates in     *)
(* exactly one of four exits: returned a complete result, failed with      *)
(* proof-failed, failed with the timeout, or failed with the error of a    *)
(* status query (transport, remote, or reading a response without result). *)
(***************************************************************************)
ExitsTaken ==
  {e \in {"complete", "failed", "timeout", "query-error"} :
     \/ e = "complete" /\ ReturnedComplete
     \/ e = "failed" /\ ProofFailed
     \/ e = "timeout" /\ TimedOut
     \/ e = "query-error" /\ QueryErrorPropagated}

C5_TerminatesInOneExit ==
  /\ [](Waiting /\ pc = "done" => Cardinality(ExitsTaken) = 1)
  /\ [](Waiting /\ pc # "done" => ExitsTaken = {})
  /\ (Waiting ~> pc = "done")

C5_Witness ==
  /\ Waiting
  /\ pc = "done"
  /\ queries = 2
  /\ sleeps = 1
  /\ ExitsTaken = {"query-error"}

(***************************************************************************)
(* C6. In a wait call a sleep of the interval follows an attempt exactly   *)
(* when that attempt answered a non-terminal status and attempts remain:   *)
(* the sleeps started are the pending answers to attempts before the last. *)
(* With maxAttempts = 3 and answers pending, pending, complete there are 3 *)
(* queries, 2 sleeps, and the result is the third response.                *)
(***************************************************************************)
C6_SleepOnlyBetweenAttempts ==
  Waiting =>
    /\ sleeps = Cardinality({i \in 1..Len(answers) :
                               answers[i] = "pending" /\ i < maxAttempts})
    /\ pc = "sleep" =>
         /\ timer = <<interval>>
         /\ Last(answers) = "pending"
         /\ Len(answers) < maxAttempts
    /\ pc # "sleep" => timer = <<>>
    /\ (maxAttempts = 3 /\ answers = <<"pending", "pending", "complete">>) =>
         /\ queries = 3
         /\ sleeps = 2
         /\ outcome = Fulfilled(resp.result)

C6_Witness ==
  /\ op = "polymer.wait"
  /\ maxAttempts = 3
  /\ interval = 10
  /\ answers = <<"pending", "pending", "complete">>
  /\ queries = 3
  /\ sleeps = 2
  /\ outcome.kind = "fulfilled"

(***************************************************************************)
(* C7 as claimed: on every entry point that submits a proof request, a     *)
(* targetChainId equal to the source chain id ends the call with the       *)
(* invalid-argument error and no request is sent.                          *)
(***************************************************************************)
\* the source and target chain ids the caller supplied
SuppliedSource ==
  IF op = "polymer.requestProof" THEN call.params.chainId
  ELSE IF op = "receipt.polymerProof"
    THEN (IF call.receipt.provider = <<>> THEN <<>>
          ELSE call.receipt.provider[1].chainId)
  ELSE IF op = "tx.polymerProof"
    THEN (IF call.tx.chainId # <<>> THEN call.tx.chainId
          ELSE IF call.tx.provider = <<>> THEN <<>>
          ELSE call.tx.provider[1].chainId)
  ELSE <<>>

SuppliedTarget ==
  IF op = "polymer.requestProof" THEN call.params.targetChainId
  ELSE IF op \in {"receipt.polymerProof", "tx.polymerProof"}
    THEN call.options.targetChainId
  ELSE <<>>

C7_SameChainRejected ==
  (SuppliedTarget # <<>> /\ SuppliedTarget = SuppliedSource) =>
    /\ submits = 0
    /\ ~Suspended => (pc = "done" /\ outcome.kind = "rejected")

(***************************************************************************)
(* C8 as claimed: every call ends with a fulfilled, filled result or with  *)
(* one error of the typed taxonomy, never with a runtime error nor with a  *)
(* result that lacks its content.                                          *)
(***************************************************************************)
TaxonomyMessages ==
  {"HTTP error! status: ", "Unexpected token in JSON", "Polymer API error: ",
   "Proof generation failed: ", "Proof generation timed out after ",
   "Transaction receipt not available",
   "Chain ID not found in transaction or provider",
   "Provider not available in transaction receipt",
   "Chain ID not found in provider",
   "targetChainId is required for proof generation",
   "Job ID is required",
   "Target chain ID must be different from source chain ID"}

FilledResult(v) ==
  /\ v.t \in {"object", "string", "job"}
  /\ v.t = "job" => v.jobId.t = "string"

C8_ResultOrTypedError ==
  pc = "done" =>
    \/ outcome.kind = "fulfilled" /\ FilledResult(outcome.value)
    \/ /\ outcome.kind = "rejected"
       /\ outcome.error.name # "TypeError"
       /\ outcome.error.message \in TaxonomyMessages

(***************************************************************************)
(* C9. wait returns a result only when the status query it just issued was *)
(* answered with status "complete": never after a pending, error or        *)
(* unknown status, and never before a query has been answered.             *)
(***************************************************************************)
C9_NoPrematureSuccess ==
  (Waiting /\ outcome.kind = "fulfilled") =>
    /\ queries >= 1
    /\ Len(answers) = queries
    /\ lastRequest = QueryRequest(jobId)
    /\ resp # NoResponse
    /\ Ok(resp) /\ resp.parsable
    /\ resp.result.t = "object"
    /\ resp.result.status = <<"complete">>
    /\ outcome.value = resp.result

C9_Witness ==
  /\ op = "tx.polymerProof"
  /\ Waiting
  /\ outcome.kind = "fulfilled"
  /\ queries = 1
  /\ resp.result.status = <<"complete">>

(***************************************************************************)
(* C10 as claimed: the loop classifies a status result by its status       *)
(* field: "complete" returns it; "error" fails with the reason taken from  *)
(* failureReason, or "Unknown error" when failureReason is absent; every   *)
(* other value, a missing status included, continues polling.              *)
(***************************************************************************)
\* a status result has just been handed to the loop
ResultInLoop == Waiting /\ result.t = "object"

PollingContinues ==
  \/ pc = "sleep" /\ attempt < maxAttempts
  \/ pc = "done" /\ attempt > maxAttempts /\ TimedOut

C10_ReasonWhenAbsent ==
  ResultInLoop =>
    /\ result.status = <<"complete">> => outcome = Fulfilled(result)
    /\ result.status = <<"error">> =>
         /\ ProofFailed
         /\ outcome.error.detail =
              IF result.failureReason = <<>> THEN <<"Unknown error">>
              ELSE result.failureReason
    /\ result.status \notin {<<"complete">>, <<"error">>} => PollingContinues

(***************************************************************************)
(* C10 as amended. The same for every result object, with "Unknown error"  *)
(* as the reason whenever failureReason is absent or empty (falsy), not    *)
(* only when it is absent.                                                 *)
(***************************************************************************)
C10_Classification ==
  ResultInLoop =>
    /\ result.status = <<"complete">> => outcome = Fulfilled(result)
    /\ result.status = <<"error">> =>
         /\ ProofFailed
         /\ outcome.error.detail =
              IF result.failureReason \in {<<>>, <<"">>} THEN <<"Unknown error">>
              ELSE result.failureReason
    /\ result.status \notin {<<"complete">>, <<"error">>} => PollingContinues

C10_Witness ==
  /\ ResultInLoop
  /\ result.status = <<"error">>
  /\ result.failureReason = <<"">>
  /\ outcome.error.detail = <<"Unknown error">>

(***************************************************************************)
(* C11 as claimed: every status-query operation (receipt.polymerProofStatus,*)
(* tx.polymerProofStatus, ethers.polymer.queryProofStatus and              *)
(* ethers.polymer.wait) called with an empty or missing job handle fails   *)
(* at once with the invalid-argument error and sends no request.           *)
(***************************************************************************)
StatusQueryOps == DirectQueryOps \cup {"polymer.wait"}

EmptyJobHandle == op \in StatusQueryOps /\ ~JTruthy(call.jobId)

C11_EmptyHandleFailsFast ==
  EmptyJobHandle =>
    /\ queries = 0
    /\ pc = "done"
    /\ outcome = Rejected(JobIdRequired)

(***************************************************************************)
(* C12: a call of addPolymerToEthers whose merged configuration has no     *)
(* non-empty apiKey fails with "Polymer API key is required" and leaves    *)
(* the ethers object as it was: no prototype method and no ethers.polymer  *)
(* is installed or replaced.                                               *)
(***************************************************************************)
NoApiKey(config) == ~TruthyStr(MergeConfig(DEFAULT_CONFIG, config).apiKey)

C12_NoKeyNoChange ==
  [][(op' = "addPolymerToEthers" /\ NoApiKey(call'.config)) =>
       /\ ethers' = ethers
       /\ outcome' = Rejected(ApiKeyRequired)]_vars

\* a call without a key has failed on an ethers object that has the plugin
C12_Witness ==
  /\ op = "addPolymerToEthers"
  /\ NoApiKey(call.config)
  /\ outcome = Rejected(ApiKeyRequired)
  /\ ethers.polymer # <<>>
  /\ ethers.txPolymerProof # <<>>

(***************************************************************************)
(* C20 as claimed: once addPolymerToEthers has succeeded, all operations   *)
(* called through the ethers object run with one and the same              *)
(* configuration, whatever later calls of addPolymerToEthers there are.    *)
(* used holds the configuration of the operations called since the last    *)
(* successful addPolymerToEthers.                                          *)
(***************************************************************************)
C20_OneConfiguration ==
  ethers.polymer # <<>> =>
    \A o1, o2 \in InstalledOps :
      (used[o1] # <<>> /\ used[o2] # <<>>) => used[o1] = used[o2]

(***************************************************************************)
(* C18 as claimed: tx.polymerProof takes the source chain id from the      *)
(* transaction when it has one and from the provider's network otherwise;  *)
(* when neither gives a chain id the call fails with "Chain ID not found   *)
(* in transaction or provider" and submits nothing.                        *)
(***************************************************************************)
\* the source chain id of the transaction the call was made on, if any
TxSourceChainId ==
  IF TruthyNum(call.tx.chainId) THEN call.tx.chainId
  ELSE IF call.tx.provider = <<>> THEN <<>>
  ELSE call.tx.provider[1].chainId

C18_SourceChainId ==
  (op = "tx.polymerProof" /\ call.tx.receipt # <<>>) =>
    IF TruthyNum(TxSourceChainId)
      THEN pc = "submit" => lastRequest.params[1] = TxSourceChainId
      ELSE FailsUnsent(ChainIdNotFoundTx)

(***************************************************************************)
(* C16 as claimed: a single submit or status query makes one round trip    *)
(* and never retries; its outcome is the HTTP error for a non-success      *)
(* status, else the parse error for a body that is not JSON, else the      *)
(* remote error with the serialized error value for an envelope carrying   *)
(* an error field, else the envelope's result.                             *)
(***************************************************************************)
SingleRequestOps == DirectQueryOps \cup {"polymer.requestProof"}

\* a call that makes a single request has got its response
Answered == op \in SingleRequestOps /\ pc = "done" /\ resp # NoResponse

\* the outcome the response calls for, given whether its envelope counts as
\* carrying an error
OutcomeFor(carriesError) ==
  IF resp.status # 200 THEN Rejected(HttpError(resp.status))
  ELSE IF ~resp.parsable THEN Rejected(JsonSyntaxError)
  ELSE IF carriesError THEN Rejected(ApiError(resp.error[1]))
  ELSE Fulfilled(resp.result)

C16_ErrorFieldFails ==
  Answered =>
    /\ submits + queries = 1
    /\ outcome = OutcomeFor(resp.error # <<>>)

(***************************************************************************)
(* C16 as amended. The same, where only a truthy error value makes the     *)
(* remote error: an envelope whose error field is empty (falsy) is taken   *)
(* as carrying no error and its result is returned.                        *)
(***************************************************************************)
C16_OneRoundTrip ==
  Answered =>
    /\ submits + queries = 1
    /\ outcome = OutcomeFor(TruthyStr(resp.error))

\* a failing HTTP status came with an error envelope: the HTTP error wins
C16_Witness ==
  /\ Answered
  /\ resp.status = 500
  /\ resp.parsable
  /\ TruthyStr(resp.error)
  /\ outcome = Rejected(HttpError(500))

(***************************************************************************)
(* Vocabulary of the claims about the log variant                          *)
(***************************************************************************)
\* receipt.polymerProof was called on a receipt whose provider has a chain id
ReceiptCall ==
  /\ op = "receipt.polymerProof"
  /\ call.receipt.provider # <<>>
  /\ TruthyNum(call.receipt.provider[1].chainId)

RequestCall == op = "polymer.requestProof"

\* nothing was sent and the call failed with error e
FailedUnsent(e) ==
  /\ submits = 0
  /\ pc = "done"
  /\ outcome = Rejected(e)

(***************************************************************************)
(* C13: when receipt.polymerProof resolves the log index from an event     *)
(* signature (no logIndex given), the log index it submits is the          *)
(* position, counted from 0, of the first log whose first topic is the     *)
(* hash of the signature; when no log matches, the call fails with the     *)
(* event-not-found error and nothing is submitted.                         *)
(***************************************************************************)
Resolving ==
  /\ ReceiptCall
  /\ TruthyStr(call.options.eventSignature)
  /\ call.options.logIndex = <<>>

\* the positions, counted from 1, of the logs whose first topic is the hash
MatchingLogs ==
  { i \in 1..Len(call.receipt.logs) :
      /\ call.receipt.logs[i].topics # <<>>
      /\ call.receipt.logs[i].topics[1] = Id(call.options.eventSignature[1]) }

C13_FirstMatchingLog ==
  Resolving =>
    IF MatchingLogs = {}
      THEN FailsUnsent(EventNotFound(call.options.eventSignature[1]))
      ELSE /\ Resumed => submits = 1
           /\ pc = "submit" =>
                \E i \in MatchingLogs :
                  /\ \A j \in MatchingLogs : i <= j
                  /\ lastRequest.params[4] = <<i - 1>>

\* logs [A], [B] and a signature hashing to B: log index 1 is submitted
C13_Witness ==
  /\ Resolving
  /\ Len(call.receipt.logs) = 2
  /\ MatchingLogs = {2}
  /\ call.receipt.logs[1].topics # <<>>
  /\ pc = "submit"
  /\ lastRequest.params[4] = <<1>>

(***************************************************************************)
(* C14 as claimed: a log proof request that supplies neither a logIndex    *)
(* nor an eventSignature fails with the invalid-argument error and is not  *)
(* submitted, on receipt.polymerProof and on ethers.polymer.requestProof.  *)
(***************************************************************************)
NeitherSupplied ==
  \/ /\ ReceiptCall
     /\ call.options.logIndex = <<>>
     /\ call.options.eventSignature = <<>>
  \/ /\ RequestCall
     /\ call.params.logIndex = <<>>
     /\ call.params.eventSignature = <<>>

C14_NeitherRejected ==
  NeitherSupplied => FailsUnsent(SignatureOrIndexRequired)

(***************************************************************************)
(* C15 as claimed: a negative logIndex fails with the invalid-argument     *)
(* error and nothing is submitted, on receipt.polymerProof and on          *)
(* ethers.polymer.requestProof, with or without an eventSignature.         *)
(***************************************************************************)
NegativeLogIndex ==
  \/ /\ ReceiptCall
     /\ call.options.logIndex # <<>>
     /\ call.options.logIndex[1] < 0
  \/ /\ RequestCall
     /\ call.params.logIndex # <<>>
     /\ call.params.logIndex[1] < 0

C15_NegativeRejected ==
  NegativeLogIndex => FailsUnsent(LogIndexNegative)

(***************************************************************************)
(* C17 as claimed: the params of a submitted request are the supplied      *)
(* values in the fixed order, the logIndex last and only when there is     *)
(* one; an omitted optional value leaves no empty position behind.         *)
(***************************************************************************)
\* the params the claim prescribes for the call that was made
PrescribedParams ==
  IF ReceiptCall
    THEN <<call.receipt.provider[1].chainId, <<call.receipt.blockNumber>>,
           <<call.receipt.index>>, lastRequest.params[4]>>
    ELSE <<call.params.srcChainId, call.params.srcBlockNumber,
           call.params.txIndex>>
         \o (IF call.params.logIndex # <<>> THEN <<call.params.logIndex>>
             ELSE <<>>)

C17_ParamsInOrder ==
  pc = "submit" =>
    /\ lastRequest.params = PrescribedParams
    /\ \A i \in 1..Len(lastRequest.params) : lastRequest.params[i] # <<>>

(***************************************************************************)
(* C19: poll loops running concurrently for different job handles are      *)
(* independent.  Under every interleaving, a finished loop's outcome,      *)
(* number of queries and number of sleeps are those of a wait call run     *)
(* alone against the responses that loop received, and every query a loop  *)
(* sends carries that loop's own job handle.                               *)
(***************************************************************************)
\* wait run alone with maxAttempts max against responses rs, from attempt n
\* on with k sleeps behind it
RECURSIVE Alone(_, _, _, _)
Alone(max, rs, n, k) ==
  IF n > max
    THEN [outcome |-> Rejected(TimeoutError(max)), queries |-> n - 1,
          sleeps |-> k]
  ELSE IF n > Len(rs)
    THEN [outcome |-> Pending, queries |-> n, sleeps |-> k]
  ELSE
    LET q == queryProofStatus(rs[n])
        here(o) == [outcome |-> o, queries |-> n, sleeps |-> k]
    IN  IF q.kind = "rejected" THEN here(q)
        ELSE IF q.value.t \in {"undefined", "null"}
          THEN here(Rejected(StatusOfNullish(q.value)))
        ELSE IF q.value.status = <<"complete">> THEN here(q)
        ELSE IF q.value.status = <<"error">>
          THEN here(Rejected(ProofFailedError(FailureReason(q.value))))
        ELSE Alone(max, rs, n + 1, IF n < max THEN k + 1 ELSE k)

AsAlone(l) ==
  LET alone == Alone(l.maxAttempts, l.answers, 1, 0)
  IN  /\ l.outcome = alone.outcome
      /\ l.queries = alone.queries
      /\ l.sleeps = alone.sleeps
      /\ l.queries = Len(l.answers)

C19_LoopsIndependent ==
  \A i \in DOMAIN loops :
    /\ loops[i].pc = "query" => loops[i].lastRequest = QueryRequest(JobOf(i))
    /\ loops[i].pc = "done" => AsAlone(loops[i])

\* two loops have finished differently, each after its own two queries
C19_Witness ==
  /\ loops[1].pc = "done"
  /\ loops[2].pc = "done"
  /\ loops[1].queries = 2
  /\ loops[2].queries = 2
  /\ loops[1].outcome.kind = "fulfilled"
  /\ loops[2].outcome = Rejected(TimeoutError(2))
  /\ loops[2].sleeps = 1

(***************************************************************************)
(* C21 as claimed: a proof request or status query that the service never  *)
(* answers is abandoned with an error when the configured timeout has      *)
(* elapsed, so a call that has sent a request always comes to an end.      *)
(***************************************************************************)
RequestInFlight == pc \in {"submit", "query"}

C21_UnansweredAbandoned == RequestInFlight ~> pc = "done"

(***************************************************************************)
(* C22: polymerProof with returnJob = true sends one proof request and no  *)
(* status query and resolves to the job id the request returned together   *)
(* with the receipt; without returnJob it enters the poll loop for that    *)
(* job id.                                                                 *)
(***************************************************************************)
PolymerProofOps == {"tx.polymerProof", "receipt.polymerProof"}

\* the receipt of the polymerProof call
CallReceipt ==
  IF op = "tx.polymerProof" THEN call.tx.receipt[1] ELSE call.receipt

\* the requestProof call of polymerProof has returned
SubmitReturned == op \in PolymerProofOps /\ handle # NoValue

C22_ReturnJob ==
  /\ (op \in PolymerProofOps /\ call.options.returnJob = <<TRUE>>) =>
       /\ queries = 0
       /\ submits <= 1
       /\ SubmitReturned =>
            /\ submits = 1
            /\ pc = "done"
            /\ outcome = Fulfilled([t |-> "job", jobId |-> handle,
                                    receipt |-> CallReceipt])
  /\ (SubmitReturned /\ call.options.returnJob = <<>>) =>
       /\ submits = 1
       /\ Waiting
       /\ jobId = handle
       /\ pc = "done" => outcome.value.t # "job"

C22_Witness ==
  /\ op = "tx.polymerProof"
  /\ call.options.returnJob = <<TRUE>>
  /\ pc = "done"
  /\ submits = 1
  /\ queries = 0
  /\ outcome.kind = "fulfilled"
  /\ outcome.value.jobId = JString("job-1")
  /\ outcome.value.receipt = call.tx.receipt[1]

(***************************************************************************)
(* C27: within one polymerProof call no status query is sent before the    *)
(* proof request has returned, at most one proof request is sent, and      *)
(* every status query carries the job id that request returned.            *)
(***************************************************************************)
C27_SubmitThenQueries ==
  op \in PolymerProofOps =>
    /\ submits <= 1
    /\ pc = "submit" => queries = 0
    /\ queries > 0 => (submits = 1 /\ SubmitReturned)
    /\ pc = "query" => lastRequest = QueryRequest(handle)

C27_Witness ==
  /\ op = "receipt.polymerProof"
  /\ pc = "query"
  /\ queries = 2
  /\ submits = 1
  /\ handle = JString("job-1")
  /\ lastRequest.params = <<JString("job-1")>>

(***************************************************************************)
(* C23 as claimed: once addPolymerToEthers has succeeded, the ethers       *)
(* object exposes the documented methods: ethers.polymer.requestProof,     *)
(* ethers.polymer.wait and ethers.polymer.getProofStatus, and on receipts  *)
(* polymerProof and polymerProofStatus.                                    *)
(***************************************************************************)
DocumentedMethods ==
  {"polymer.requestProof", "polymer.wait", "polymer.getProofStatus",
   "receipt.polymerProof", "receipt.polymerProofStatus"}

C23_DocumentedMethods ==
  ethers.polymer # <<>> => DocumentedMethods \subseteq Exposed(ethers)

(***************************************************************************)
(* C25: polling under transport failure is deterministic.  When the first  *)
(* status query of a wait call fails at transport level, the call is over  *)
(* after that one query and no sleep, and its outcome is the transport     *)
(* error of that response and of nothing else, so any two such runs agree. *)
(***************************************************************************)
TransportFailure == Waiting /\ answers # <<>> /\ answers[1] = "transport"

C25_TransportDeterministic ==
  TransportFailure =>
    /\ pc = "done"
    /\ queries = 1
    /\ sleeps = 0
    /\ outcome = Rejected(IF resp.status # 200 THEN HttpError(resp.status)
                          ELSE JsonSyntaxError)

\* ethers.polymer.wait(jobId) under the default maxAttempts and interval
C25_Witness ==
  /\ TransportFailure
  /\ op = "polymer.wait"
  /\ call.maxAttempts = <<>>
  /\ maxAttempts = DEFAULT_CONFIG.maxAttempts
  /\ interval = DEFAULT_CONFIG.interval
  /\ pc = "done"
  /\ outcome = Rejected(HttpError(500))

(***************************************************************************)
(* C26 as claimed: tx.polymerProof and receipt.polymerProof called without *)
(* a targetChainId (absent or zero) fail with "targetChainId is required   *)
(* for proof generation" and submit no proof request.                      *)
(***************************************************************************)
NoTarget ==
  op \in PolymerProofOps /\ ~TruthyNum(call.options.targetChainId)

C26_TargetRequired == NoTarget => FailsUnsent(TargetChainIdRequired)

(***************************************************************************)
(* C26 as amended. Such a call submits nothing and fails; the error is     *)
(* "targetChainId is required for proof generation" when the receipt and   *)
(* the source chain id were obtained, the steps that come first in the     *)
(* code; a call that fails in those steps fails with their error.          *)
(***************************************************************************)
\* the receipt and the source chain id of the polymerProof call were obtained
SourceResolved ==
  IF op = "tx.polymerProof"
    THEN call.tx.receipt # <<>> /\ TruthyNum(TxSourceChainId)
    ELSE /\ call.receipt.provider # <<>>
         /\ TruthyNum(call.receipt.provider[1].chainId)

C26_TargetRequiredOnceResolved ==
  NoTarget =>
    /\ submits = 0
    /\ ~Suspended => (pc = "done" /\ outcome.kind = "rejected")
    /\ SourceResolved => FailsUnsent(TargetChainIdRequired)

C26_Witness ==
  /\ op = "tx.polymerProof"
  /\ call.options.targetChainId = <<0>>
  /\ SourceResolved
  /\ FailedUnsent(TargetChainIdRequired)

(***************************************************************************)
(* C28 as claimed: at every point of a wait call the attempt counter is in *)
(* 1..maxAttempts, at most maxAttempts status queries have been sent,      *)
(* queries and sleeps alternate starting with a query, so that the number  *)
(* of completed sleeps is the number of queries or one less, and it never  *)
(* exceeds maxAttempts - 1.                                                *)
(***************************************************************************)
\* the sleeps of the wait call whose timer has fired
CompletedSleeps == IF pc = "sleep" THEN sleeps - 1 ELSE sleeps

\* a query is followed by a sleep and a sleep by a query
Alternating ==
  /\ CompletedSleeps \in {queries - 1, queries}
  /\ CompletedSleeps >= 0
  /\ pc = "query" => CompletedSleeps = queries - 1
  /\ pc = "sleep" => sleeps = queries

\* the loop is under way, or it has ended inside its body by return or throw
InLoopBody == Waiting /\ ~(pc = "done" /\ TimedOut)

C28_CounterInRange ==
  Waiting =>
    /\ InLoopBody => attempt \in 1..maxAttempts
    /\ queries <= maxAttempts
    /\ Alternating
    /\ CompletedSleeps <= maxAttempts - 1

(***************************************************************************)
(* C29: the status of the last attempt counts.  When the N-th status query *)
(* of a wait call with maxAttempts = N, after N - 1 pending answers, is    *)
(* answered "error", wait fails with the proof-failed error carrying the   *)
(* reason and not with the timeout; when it is answered "complete", wait   *)
(* returns the result.                                                     *)
(***************************************************************************)
\* the last attempt of the wait call has been answered
LastAttemptAnswered ==
  /\ Waiting
  /\ maxAttempts >= 1
  /\ Len(answers) = maxAttempts
  /\ PendingBefore(maxAttempts)

C29_LastAttemptChecked ==
  LastAttemptAnswered =>
    /\ Last(answers) = "failed" =>
         /\ pc = "done"
         /\ outcome = Rejected(ProofFailedError(FailureReason(result)))
         /\ ~TimedOut
    /\ Last(answers) = "complete" =>
         /\ pc = "done"
         /\ outcome = Fulfilled(result)
         /\ result = resp.result

C29_Witness ==
  /\ LastAttemptAnswered
  /\ maxAttempts = 3
  /\ answers = <<"pending", "pending", "failed">>
  /\ queries = 3
  /\ outcome = Rejected(ProofFailedError("out of gas"))

(***************************************************************************)
(* C30: in tx.polymerProof and receipt.polymerProof, of either variant, a  *)
(* failure of the resolution and validation steps (receipt not available,  *)
(* no provider, no chain id, targetChainId missing or equal to the source, *)
(* neither logIndex nor eventSignature, negative logIndex, event not       *)
(* found) ends the call before the submit: no request is sent to the proof *)
(* service and no status query is issued.                                  *)
(***************************************************************************)
\* the call fails one of the steps of the target-chain variant
TargetResolutionFails ==
  \/ ~SourceResolved
  \/ ~TruthyNum(call.options.targetChainId)
  \/ call.options.targetChainId = SuppliedSource

\* the call fails one of the steps of the log variant
LogResolutionFails ==
  \/ ~SourceResolved
  \/ ~TruthyStr(call.options.eventSignature) /\ call.options.logIndex = <<>>
  \/ call.options.logIndex # <<>> /\ call.options.logIndex[1] < 0
  \/ IF Resolving THEN MatchingLogs = {} ELSE FALSE

ResolutionFails ==
  /\ op \in PolymerProofOps
  /\ IF variant = "log" THEN LogResolutionFails ELSE TargetResolutionFails

C30_FailsBeforeSubmit ==
  ResolutionFails =>
    /\ submits = 0
    /\ queries = 0
    /\ lastRequest = NoRequest
    /\ ~Suspended => (pc = "done" /\ outcome.kind = "rejected")

\* the event of the signature is not among the two logs of the receipt
C30_Witness ==
  /\ variant = "log"
  /\ ResolutionFails
  /\ Len(call.receipt.logs) = 2
  /\ outcome.error.message = "Event not found in transaction receipt"
  /\ submits = 0

(***************************************************************************)
(* Debug logging.  createLogger(enabled) gives log and error functions     *)
(* that write a line to the console when enabled and do nothing otherwise. *)
(* To compare a call with debug enabled and with debug disabled, a         *)
(* finished call is repeated on an ethers object whose plugin was added    *)
(* with the other debug setting, with the same arguments and against a     *)
(* service that gives the same responses.                                  *)
(***************************************************************************)
\* the lines on the console after n calls of the logger's log and error
createLogger(enabled, n) == IF enabled THEN n ELSE 0

\* the proof request of the call was answered and requestProof threw
SubmitFailed ==
  /\ submits = 1
  /\ queries = 0
  /\ pc = "done"
  /\ outcome.kind = "rejected"
  /\ handle = NoValue
  /\ resp # NoResponse

\* the last status query of the call was answered and queryProofStatus threw
QueryFailed == answers # <<>> /\ Last(answers) \in {"transport", "remote"}

\* the calls the call has made of logger.log and logger.error so far:
\* polymerProof logs the details and the job id, requestProof and
\* queryProofStatus each request and each error, wait its start, each
\* attempt, each sleep and the completion
LogCalls ==
  (IF op \in PolymerProofOps
     THEN submits + (IF handle # NoValue THEN 1 ELSE 0) ELSE 0)
  + submits + (IF SubmitFailed THEN 1 ELSE 0)
  + queries + (IF QueryFailed THEN 1 ELSE 0)
  + (IF Waiting
       THEN 1 + queries + sleeps + (IF ReturnedComplete THEN 1 ELSE 0)
       ELSE 0)

Console == createLogger(polymerConfig.debug, LogCalls)

\* one response of the proof service for each way requestProof can end
DebugSubmitResponses ==
  { CHOOSE r \in SubmitResponses : requestProof(r) = o :
      o \in { requestProof(r) : r \in SubmitResponses } }

\* one response of the proof service of each class
DebugQueryResponses ==
  { CHOOSE r \in QueryResponses : AnswerClass(r) = c :
      c \in { AnswerClass(r) : r \in QueryResponses } }

\* what requestProof made of the answer to the call's proof request
Submitted == IF handle # NoValue THEN Fulfilled(handle) ELSE outcome

\* what can be seen of the call from outside, the console aside
Observed ==
  [op |-> op, call |-> call, outcome |-> outcome, submits |-> submits,
   queries |-> queries, sleeps |-> sleeps, answers |-> answers,
   handle |-> handle, lastRequest |-> lastRequest]

\* the finished call is taken up for repetition: the plugin is added to a
\* fresh ethers object with the other debug setting
Replay ==
  LET cfg == [polymerConfig EXCEPT !.debug = ~@]
  IN  /\ pc = "done"
      /\ first = NoRun
      /\ first' = [op |-> op, debug |-> polymerConfig.debug,
                   console |-> Console, submitted |-> Submitted,
                   observed |-> Observed]
      /\ polymerConfig' = cfg
      /\ ethers' = addPolymerToEthers(EthersObject(TRUE, TRUE), cfg).ethers
      /\ op' = "none"
      /\ call' = NoCall
      /\ pc' = "idle"
      /\ jobId' = JUndefined
      /\ maxAttempts' = 0
      /\ interval' = 0
      /\ attempt' = 0
      /\ result' = NoValue
      /\ returnJob' = FALSE
      /\ receipt' = <<>>
      /\ timer' = <<>>
      /\ lastRequest' = NoRequest
      /\ resp' = NoResponse
      /\ submits' = 0
      /\ queries' = 0
      /\ sleeps' = 0
      /\ answers' = <<>>
      /\ outcome' = Pending
      /\ handle' = NoValue
      /\ UNCHANGED <<variant, used, loops>>

\* the caller makes the call of the first run again
ReplayCall ==
  LET c == first.observed.call
  IN  /\ first # NoRun
      /\ pc = "idle"
      /\ CASE first.op = "polymer.wait" ->
                PolymerWait(c.jobId, c.maxAttempts, c.interval)
            [] first.op = "polymer.queryProofStatus" ->
                PolymerQueryProofStatus(c.jobId)
            [] first.op = "tx.polymerProofStatus" ->
                TxPolymerProofStatus(c.jobId)
            [] first.op = "receipt.polymerProofStatus" ->
                ReceiptPolymerProofStatus(c.jobId)
            [] first.op = "polymer.requestProof" ->
                PolymerRequestProof(c.params)
            [] first.op = "tx.polymerProof" ->
                TxPolymerProof(c.tx, c.options)
            [] first.op = "receipt.polymerProof" ->
                ReceiptPolymerProof(c.receipt, c.options)

\* the caller makes a call, the first of the two runs
DebugCall == first = NoRun /\ Call

\* the service answers the proof request; in the second run as in the first
DebugSubmitResponds ==
  \E r \in DebugSubmitResponses :
    /\ first # NoRun => requestProof(r) = first.submitted
    /\ SubmitRespond(r)

\* the service answers the status query; in the second run as in the first
DebugQueryResponds ==
  \E r \in DebugQueryResponses :
    /\ first # NoRun =>
         /\ Len(answers) < Len(first.observed.answers)
         /\ AnswerClass(r) = first.observed.answers[Len(answers) + 1]
    /\ QueryRespond(r)

DebugInit ==
  /\ \E debug \in BOOLEAN :
       LET c == [apiKey |-> <<"key">>, maxAttempts |-> MaxAttemptsArg,
                 interval |-> 10, debug |-> debug]
       IN  /\ polymerConfig = MergeConfig(DEFAULT_CONFIG, c)
           /\ ethers = addPolymerToEthers(EthersObject(TRUE, TRUE), c).ethers
  /\ Idle
  /\ variant = "receipt"
  /\ used = NotUsed
  /\ first = NoRun
  /\ loops = <<>>

\* in the second run the promises of ethers are settled as in the first
Resolving2 == first # NoRun => first.observed.outcome # Rejected(AwaitedError(pc))

Rejecting2 == first # NoRun => first.observed.outcome = Rejected(AwaitedError(pc))

DebugTxWaitResolved == Resolving2 /\ TxWaitResolved

DebugTxNetworkResolved == Resolving2 /\ TxNetworkResolved

DebugReceiptNetworkResolved == Resolving2 /\ ReceiptNetworkResolved

DebugAwaitRejected == Rejecting2 /\ AwaitRejected

DebugNext ==
  \/ DebugCall
  \/ DebugTxWaitResolved
  \/ DebugTxNetworkResolved
  \/ DebugReceiptNetworkResolved
  \/ DebugAwaitRejected
  \/ DebugSubmitResponds
  \/ DebugQueryResponds
  \/ SleepDone
  \/ Replay
  \/ ReplayCall

DebugSpec == DebugInit /\ [][DebugNext]_vars

(***************************************************************************)
(* C24: debug logging does not influence behaviour.  A call repeated with  *)
(* the other debug setting, with the same arguments and the same responses *)
(* of the service, never gets ahead of the first run, and when it has      *)
(* ended it has the same outcome, has sent the same requests and has made  *)
(* the same number of queries and sleeps; only the console differs.        *)
(***************************************************************************)
Repeating == first # NoRun /\ op # "none"

C24_DebugBlind ==
  Repeating =>
    /\ polymerConfig.debug # first.debug
    /\ submits <= first.observed.submits
    /\ queries <= first.observed.queries
    /\ sleeps <= first.observed.sleeps
    /\ pc = "submit" => first.observed.submits = 1
    /\ pc = "query" =>
         /\ Len(answers) < Len(first.observed.answers)
         /\ lastRequest.method = "receipt_queryProof"
    /\ pc = "done" => Observed = first.observed

\* a polymerProof call that polled twice, with debug enabled and then without
C24_Witness ==
  /\ Repeating
  /\ op = "tx.polymerProof"
  /\ pc = "done"
  /\ queries = 2
  /\ sleeps = 1
  /\ first.debug
  /\ first.console > 0
  /\ Console = 0
  /\ Observed = first.observed

(***************************************************************************)
(* C31: a second successful addPolymerToEthers on an ethers object that    *)
(* has the plugin does not replace the installed polymerProof methods,     *)
(* which keep the configuration they were installed with and run with it,  *)
(* while polymerProofStatus and ethers.polymer are replaced by functions   *)
(* that use the configuration of the second call.                          *)
(***************************************************************************)
\* the step is a successful addPolymerToEthers on an object with the plugin
AddedAgain ==
  /\ op' = "addPolymerToEthers"
  /\ outcome'.kind = "fulfilled"
  /\ ethers.polymer # <<>>
  /\ <<op, call, outcome, ethers, used>>' # <<op, call, outcome, ethers, used>>

C31_ProofMethodsKept ==
  [][/\ AddedAgain =>
          LET cfg == MergeConfig(DEFAULT_CONFIG, call'.config)
          IN  /\ ethers'.txPolymerProof = ethers.txPolymerProof
              /\ ethers'.receiptPolymerProof = ethers.receiptPolymerProof
              /\ ethers'.txPolymerProofStatus = <<cfg>>
              /\ ethers'.receiptPolymerProofStatus = <<cfg>>
              /\ ethers'.polymer = <<cfg>>
     /\ \A o \in InstalledOps :
          (op' = o /\ used'[o] # <<>>) =>
            /\ polymerConfig' = Closure(ethers, o)[1]
            /\ used'[o] = Closure(ethers, o)]_vars

\* after a second addPolymerToEthers with another configuration,
\* tx.polymerProof has run with the first configuration and
\* ethers.polymer.wait with the second
C31_Witness ==
  /\ used["tx.polymerProof"] # <<>>
  /\ used["polymer.wait"] # <<>>
  /\ used["tx.polymerProof"] = ethers.txPolymerProof
  /\ used["polymer.wait"] = ethers.polymer
  /\ ethers.txPolymerProofStatus = ethers.polymer
  /\ ethers.receiptPolymerProofStatus = ethers.polymer
  /\ ethers.txPolymerProof = ethers.receiptPolymerProof
  /\ ethers.txPolymerProof # ethers.polymer

(***************************************************************************)
(* C32 as claimed: the polling budget of a call is the per-call value when *)
(* one is supplied and the configured default otherwise.  polymerProof     *)
(* runs with options.maxAttempts and options.interval when they are        *)
(* defined, ethers.polymer.wait with its maxAttempts and interval          *)
(* arguments when they are supplied, and both with the configuration's     *)
(* maxAttempts and interval otherwise.                                     *)
(***************************************************************************)
\* the per-call value when there is one, else the configured default
SuppliedOr(supplied, default) ==
  IF supplied # <<>> THEN supplied[1] ELSE default

C32_SuppliedOrDefault ==
  /\ (op \in PolymerProofOps /\ submits = 1) =>
       /\ maxAttempts =
            SuppliedOr(call.options.maxAttempts, polymerConfig.maxAttempts)
       /\ interval = SuppliedOr(call.options.interval, polymerConfig.interval)
  /\ op = "polymer.wait" =>
       /\ maxAttempts = SuppliedOr(call.maxAttempts, polymerConfig.maxAttempts)
       /\ interval = SuppliedOr(call.interval, polymerConfig.interval)

(***************************************************************************)
(* C33 as claimed: every wait call that ends with the timeout error has    *)
(* issued at least one status query, whatever maxAttempts the caller       *)
(* passed in the polymerProof options or to ethers.polymer.wait.           *)
(***************************************************************************)
C33_TimeoutAfterQuery == TimedOut => queries >= 1

(***************************************************************************)
(* C34: in receipt.polymerProof of the log variant a supplied numeric      *)
(* logIndex takes precedence over an eventSignature.  The request is       *)
(* submitted with the supplied logIndex, whatever the logs of the receipt  *)
(* are, and the call does not fail with the event-not-found error even     *)
(* when no log matches the signature.                                      *)
(***************************************************************************)
\* receipt.polymerProof was called with a logIndex that is not negative
IndexSupplied ==
  /\ ReceiptCall
  /\ call.options.logIndex # <<>>
  /\ call.options.logIndex[1] >= 0

EventNotFoundRaised ==
  /\ outcome.kind = "rejected"
  /\ outcome.error.message = "Event not found in transaction receipt"

C34_IndexOverSignature ==
  IndexSupplied =>
    /\ Resumed => submits = 1
    /\ submits <= 1
    /\ ~EventNotFoundRaised
    /\ pc = "submit" => lastRequest.params[4] = call.options.logIndex

\* logIndex 1 and a signature that the one log of the receipt does not
\* match: log index 1 is submitted
C34_Witness ==
  /\ IndexSupplied
  /\ call.options.logIndex = <<1>>
  /\ TruthyStr(call.options.eventSignature)
  /\ MatchingLogs = {}
  /\ Len(call.receipt.logs) = 1
  /\ pc = "submit"
  /\ lastRequest.params[4] = <<1>>

(***************************************************************************)
(* The specification of tx.polymerProof on transaction responses that      *)
(* were sent before they were mined: the response has no block number,     *)
(* wait() yields the receipt with the block number and the index, or null  *)
(***************************************************************************)
\* the block number and the index of the receipts wait() yields
MinedAt == {<<10, 3>>, <<11, 0>>}

SentTransactions ==
  { [chainId |-> c, provider |-> p, blockNumber |-> <<>>, index |-> <<>>,
     receipt |-> IF at = <<>> THEN <<>>
                 ELSE <<[blockNumber |-> at[1][1], index |-> at[1][2],
                         provider |-> p]>>] :
      c \in OptChainIds, p \in Providers,
      at \in {<<>>} \cup { <<m>> : m \in MinedAt } }

SentCall ==
  /\ pc = "idle"
  /\ \E tx \in SentTransactions, options \in ProofOptions :
       TxPolymerProof(tx, options)

SentNext ==
  \/ SentCall
  \/ TxWaitResolved
  \/ TxNetworkResolved
  \/ AwaitRejected
  \/ OptionsChange
  \/ SubmitResponds
  \/ QueryResponds
  \/ SleepDone

SentSpec == Init /\ [][SentNext]_vars

(***************************************************************************)
(* C35: tx.polymerProof first awaits the receipt of the transaction.  When *)
(* there is none it fails with "Transaction receipt not available" before  *)
(* any chain id lookup, validation or submit, whatever the transaction,    *)
(* its provider and the options are; and the block number and transaction  *)
(* index of a submitted request are those of the awaited receipt.          *)
(***************************************************************************)
TxCall == op = "tx.polymerProof"

C35_ReceiptFirst ==
  TxCall =>
    /\ call.tx.receipt = <<>> =>
         /\ FailsUnsent(ReceiptNotAvailable)
         /\ pc # "tx.getNetwork"
         /\ queries = 0
         /\ lastRequest = NoRequest
    /\ submits <= 1
    /\ submits = 1 => call.tx.receipt # <<>>
    /\ pc = "submit" =>
         LET n == Len(lastRequest.params)
         IN  /\ n >= 3
             /\ lastRequest.params[n - 1] = <<call.tx.receipt[1].blockNumber>>
             /\ lastRequest.params[n] = <<call.tx.receipt[1].index>>

\* a transaction without chain id and provider, called without a target
\* chain, has failed for want of a receipt and of nothing else
C35_Witness ==
  /\ TxCall
  /\ call.tx.receipt = <<>>
  /\ call.tx.chainId = <<>>
  /\ call.tx.provider = <<>>
  /\ call.options.targetChainId = <<>>
  /\ FailedUnsent(ReceiptNotAvailable)

(***************************************************************************)
(* The specification of the standalone use: the caller requests a proof    *)
(* with ethers.polymer.requestProof and, once it has the job id, polls     *)
(* with ethers.polymer.wait(jobId, maxAttempts, interval)                  *)
(***************************************************************************)
\* const jobId = await ethers.polymer.requestProof(params) has returned
JobCreated ==
  /\ op = "polymer.requestProof"
  /\ pc = "done"
  /\ outcome.kind = "fulfilled"

\* the caller goes on with ethers.polymer.wait(jobId, max, ms)
ThenWait(max, ms) ==
  /\ JobCreated
  /\ op' = "polymer.wait"
  /\ call' = [jobId |-> outcome.value, maxAttempts |-> max, interval |-> ms]
  /\ handle' = outcome.value
  /\ WaitEnter(outcome.value,
               IF TruthyNum(max) THEN max[1] ELSE polymerConfig.maxAttempts,
               IF TruthyNum(ms) THEN ms[1] ELSE polymerConfig.interval,
               resp)
  /\ UNCHANGED <<polymerConfig, variant, ethers, used, first, loops,
                 returnJob, receipt, submits>>

RequestsProof == \E params \in RequestParams : PolymerRequestProof(params)

ThenWaits == \E max \in MaxAttemptsArgs, ms \in IntervalArgs : ThenWait(max, ms)

StandaloneNext ==
  \/ RequestsProof
  \/ SubmitResponds
  \/ ThenWaits
  \/ QueryResponds
  \/ SleepDone

StandaloneSpec == Init /\ [][StandaloneNext]_vars

(***************************************************************************)
(* C36: ethers.polymer.requestProof sends exactly one proof request and no *)
(* status query, and resolves to the job id the service returned; status   *)
(* queries are sent only once the caller has gone on to call               *)
(* ethers.polymer.wait with that job id, and they ask for that job.        *)
(***************************************************************************)
C36_SubmitOnly ==
  /\ op = "polymer.requestProof" =>
       /\ submits = 1
       /\ queries = 0
       /\ sleeps = 0
       /\ pc \in {"submit", "done"}
       /\ pc = "submit" => lastRequest.method = "receipt_requestProof"
       /\ JobCreated => (resp # NoResponse /\ outcome.value = resp.result)
       /\ (pc = "done" /\ Ok(resp) /\ resp.parsable /\ ~TruthyStr(resp.error))
            => JobCreated
  /\ queries >= 1 =>
       /\ op = "polymer.wait"
       /\ submits = 1
       /\ jobId = handle
       /\ pc = "query" => lastRequest = QueryRequest(handle)

\* the job id "job-1" came back from requestProof and wait has polled for it
\* twice
C36_Witness ==
  /\ op = "polymer.wait"
  /\ handle = JString("job-1")
  /\ submits = 1
  /\ queries = 2
  /\ pc = "query"
  /\ lastRequest = QueryRequest(JString("job-1"))
====
